---- MODULE Spec2Model ----
(***************************************************************************)
(* A model of grass, one specification per area of the source:             *)
(*   src/src/selector/list.rs   resolve_parent_selectors: SpecSel          *)
(*                              unify, is_superselector: SpecUnify         *)
(*                              Display: SpecDisplay                       *)
(*   src/src/atrule/mod.rs      AtRule::from_tokens: SpecAt                *)
(*   src/src/builtin/list.rs    the list built-ins: SpecFn                 *)
(*   src/src/value.rs           Add and Value::from_tokens: SpecValue      *)
(*   src/src/lexer.rs           Lexer::next: SpecLex                       *)
(*   src/tests/plain-css.rs     plain-CSS mode: SpecCss                    *)
(***************************************************************************)
EXTENDS Integers, Sequences, FiniteSets, TLC

VARIABLES
    \* ---- SelectorList::resolve_parent_selectors ----
    selfList,         \* `self.components` of the running call
    parent,           \* `parent: Option<Self>` of the running call
    implicit_parent,  \* `implicit_parent: bool` of the running call
    iterable,         \* the Vec<Vec<ComplexSelector>> handed to flatten_vertically
    queues,           \* `queues` of flatten_vertically
    result,           \* `result` of flatten_vertically
    passes,           \* iterations of the while loop of flatten_vertically so far
    selOut,           \* outcome of the running call
    selPc,            \* position of the running call
    calls,            \* the calls completed so far, oldest first
    \* ---- AtRule::from_tokens ----
    rule,             \* the at-rule being processed (kind and parsed parts)
    super_selector,   \* `super_selector` passed by the caller
    scope,            \* the caller's scope (`scope: &mut Scope`)
    work,             \* @while: the local `scope`, made by `scope.clone()`
    rows,             \* @each: `iterator`, the rows to loop over
    stmts,            \* `stmts` accumulated by the handler
    iter,             \* number of loop iterations started
    evals,            \* @while: the condition's truth values, in evaluation order
    last,             \* per variable, the value last written while handling the rule
    bodies,           \* the statements each body evaluation returned, in order
    atOut,            \* outcome of from_tokens
    atPc,             \* position inside from_tokens
    \* ---- SelectorList::unify, SelectorList::is_superselector ----
    uniSelf,          \* `self.components` of unify
    uniOther,         \* `other.components` of unify
    uniOut,           \* what unify returned
    supers,           \* what is_superselector returned for self and for other
    uniPc,            \* position of the call
    \* ---- impl fmt::Display for SelectorList ----
    dispList,         \* `self.components` being written
    dispNext,         \* index of the next complex the loop looks at
    first,            \* `first` of fmt
    written,          \* what was written to `f` so far, piece by piece
    dispPc,           \* position inside fmt
    \* ---- the list built-ins ----
    fnName,           \* the built-in called
    fnArgs,           \* its arguments, by name
    fnOut,            \* what it returned
    fnPc,             \* position of the call
    \* ---- impl Add for Value, Value::from_tokens (value.rs) ----
    valOp,            \* the operation called
    valArgs,          \* its operands, or the tokens it reads
    valOut,           \* what it returned
    valPc,            \* position of the call
    \* ---- Lexer (lexer.rs) ----
    buf,              \* `buf`: the characters not yet consumed
    tokens,           \* the kinds of the tokens `next` returned so far
    lexPc,            \* position of the lexer
    \* ---- compilation in plain-CSS mode ----
    cssIn,            \* the constructs of the input, in source order
    cssPos,           \* index of the next construct looked at
    cssOut,           \* what was emitted so far
    cssPc             \* position of the compilation, or its error

selVars == <<selfList, parent, implicit_parent, iterable, queues, result,
             passes, selOut, selPc, calls>>
atVars == <<rule, super_selector, scope, work, rows, stmts, iter, evals, last,
            bodies, atOut, atPc>>
uniVars == <<uniSelf, uniOther, uniOut, supers, uniPc>>
dispVars == <<dispList, dispNext, first, written, dispPc>>
fnVars == <<fnName, fnArgs, fnOut, fnPc>>
valVars == <<valOp, valArgs, valOut, valPc>>
lexVars == <<buf, tokens, lexPc>>
cssVars == <<cssIn, cssPos, cssOut, cssPc>>
vars == <<selVars, atVars, uniVars, dispVars, fnVars, valVars, lexVars, cssVars>>

\* What each part of the model leaves alone.
outsideSel == <<atVars, uniVars, dispVars, fnVars, valVars, lexVars, cssVars>>
outsideAt == <<selVars, uniVars, dispVars, fnVars, valVars, lexVars, cssVars>>
outsideUni == <<selVars, atVars, dispVars, fnVars, valVars, lexVars, cssVars>>
outsideDisp == <<selVars, atVars, uniVars, fnVars, valVars, lexVars, cssVars>>
outsideFn == <<selVars, atVars, uniVars, dispVars, valVars, lexVars, cssVars>>
outsideVal == <<selVars, atVars, uniVars, dispVars, fnVars, lexVars, cssVars>>
outsideLex == <<selVars, atVars, uniVars, dispVars, fnVars, valVars, cssVars>>
outsideCss == <<selVars, atVars, uniVars, dispVars, fnVars, valVars, lexVars>>

(***************************************************************************)
(* Bounds of the model.                                                    *)
(***************************************************************************)
MaxListLen == 2      \* complex selectors in the list being resolved
MaxParentLen == 2    \* complex selectors in the parent list
MaxRounds == 1       \* further calls made on the result of a call
MaxIter == 3         \* iterations of a @while loop that are followed
MaxUnifyLen == 2     \* complex selectors in each list handed to unify
MaxDisplayLen == 3   \* complex selectors in the list being serialized
MaxItems == 2        \* elements of a list handed to a list built-in
\* The largest value a Dimension holds, standing for u64::MAX.
MaxVal == 3
\* The operands of a parsed expression.
MaxOperands == 3
\* The characters of a lexed input.
MaxInput == 4
\* The constructs of a plain-CSS input.
MaxConstructs == 2

(***************************************************************************)
(* Selector entities.                                                      *)
(***************************************************************************)
\* SimpleSelector::Parent(suffix); "" stands for no suffix.
Parent(suffix) == [kind |-> "Parent", name |-> suffix]
Class(name) == [kind |-> "Class", name |-> name]
Type(name) == [kind |-> "Type", name |-> name]
Placeholder(name) == [kind |-> "Placeholder", name |-> name]

\* ComplexSelectorComponent::{Compound, Combinator}
Compound(simples) == [kind |-> "Compound", simples |-> simples, combinator |-> ""]
Combinator(c) == [kind |-> "Combinator", simples |-> <<>>, combinator |-> c]

ComplexSelector(components, line_break) ==
    [components |-> components, line_break |-> line_break]

Some(components) == [some |-> TRUE, components |-> components]
None == [some |-> FALSE, components |-> <<>>]

SeqsUpTo(S, n) == UNION {[1..k -> S] : k \in 0..n}

Front(s) == SubSeq(s, 1, Len(s) - 1)

Last(s) == s[Len(s)]

\* ComplexSelectorComponent::is_compound
is_compound(component) == component.kind = "Compound"

\* CompoundSelector: some simple selector is SimpleSelector::Parent
CompoundContainsParent(component) ==
    \E i \in 1..Len(component.simples) : component.simples[i].kind = "Parent"

\* ComplexSelector::contains_parent_selector
ComplexContainsParent(complex) ==
    \E i \in 1..Len(complex.components) :
        /\ is_compound(complex.components[i])
        /\ CompoundContainsParent(complex.components[i])

\* SelectorList::contains_parent_selector
contains_parent_selector(components) ==
    \E i \in 1..Len(components) : ComplexContainsParent(components[i])

\* SimpleSelector::add_suffix
AddSuffix(simples, suffix) ==
    IF suffix = "" THEN simples
    ELSE Front(simples) \o <<[Last(simples) EXCEPT !.name = @ \o suffix]>>

\* CompoundSelector::resolve_parent_selectors: None when the compound holds no
\* Parent; otherwise one complex per parent complex, the Parent replaced by
\* the parent complex, its suffix appended to the last simple selector of the
\* injected parent and the compound's other simple selectors kept after it.
CompoundResolve(component, p) ==
    IF ~CompoundContainsParent(component) THEN None
    ELSE IF Len(component.simples) = 1 /\ component.simples[1].name = ""
    THEN Some(p)
    ELSE Some([j \in 1..Len(p) |->
            ComplexSelector(
                Front(p[j].components) \o
                    <<Compound(AddSuffix(Last(p[j].components).simples,
                                         component.simples[1].name)
                               \o Tail(component.simples))>>,
                p[j].line_break)])

(***************************************************************************)
(* SelectorList::resolve_parent_selectors, the closure mapped over         *)
(* `self.components`.                                                      *)
(***************************************************************************)
\* ResolveImplicit with the line_break flags combined by AND.
ResolveImplicit_AndLineBreak(complex, p) ==
    [j \in 1..Len(p) |->
        ComplexSelector(p[j].components \o complex.components,
                        complex.line_break /\ p[j].line_break)]

\* A complex without Parent under implicit_parent: one complex per parent
\* complex, the parent's components first.
ResolveImplicit(complex, p) ==
    [j \in 1..Len(p) |->
        ComplexSelector(p[j].components \o complex.components,
                        complex.line_break \/ p[j].line_break)]

\* `for new_complex in new_complexes.iter_mut() { new_complex.push(component) }`
PushAll(new_complexes, component) ==
    [n \in 1..Len(new_complexes) |-> Append(new_complexes[n], component)]

\* CrossComplexes with the two loops nested the other way round.
CrossComplexes_ResolvedOuter(previous_complexes, resolved) ==
    IF Len(previous_complexes) * Len(resolved) = 0 THEN <<>>
    ELSE [n \in 1..(Len(previous_complexes) * Len(resolved)) |->
            previous_complexes[((n - 1) % Len(previous_complexes)) + 1]
                \o resolved[((n - 1) \div Len(previous_complexes)) + 1]
                        .components]

\* The nested loops over previous_complexes and resolved: new_complexes.
CrossComplexes(previous_complexes, resolved) ==
    IF Len(previous_complexes) * Len(resolved) = 0 THEN <<>>
    ELSE [n \in 1..(Len(previous_complexes) * Len(resolved)) |->
            previous_complexes[((n - 1) \div Len(resolved)) + 1]
                \o resolved[((n - 1) % Len(resolved)) + 1].components]

\* The nested loops over previous_complexes and resolved: line_breaks.
CrossLineBreaks(previous_line_breaks, resolved) ==
    IF Len(previous_line_breaks) * Len(resolved) = 0 THEN <<>>
    ELSE [n \in 1..(Len(previous_line_breaks) * Len(resolved)) |->
            previous_line_breaks[((n - 1) \div Len(resolved)) + 1]
                \/ resolved[((n - 1) % Len(resolved)) + 1].line_break]

\* `for component in complex.components { ... }`, from component k on.
RECURSIVE ResolveComponents(_, _, _, _, _)
ResolveComponents(components, k, p, new_complexes, line_breaks) ==
    IF k > Len(components)
    THEN [new_complexes |-> new_complexes, line_breaks |-> line_breaks]
    ELSE LET component == components[k]
             resolved == CompoundResolve(component, p)
         IN  IF is_compound(component) /\ resolved.some
             THEN ResolveComponents(components, k + 1, p,
                     CrossComplexes(new_complexes, resolved.components),
                     CrossLineBreaks(line_breaks, resolved.components))
             ELSE ResolveComponents(components, k + 1, p,
                     PushAll(new_complexes, component), line_breaks)

\* A complex that contains Parent: the cross product of its resolved compounds.
ResolveExplicit(complex, p) ==
    LET r == ResolveComponents(complex.components, 1, p, <<<<>>>>, <<FALSE>>)
    IN  [n \in 1..Len(r.new_complexes) |->
            ComplexSelector(r.new_complexes[n], r.line_breaks[n])]

\* ResolveComplex without the `if !implicit_parent` early return.
ResolveComplex_AlwaysImplicit(complex, p, implicit) ==
    IF ~ComplexContainsParent(complex)
    THEN ResolveImplicit(complex, p)
    ELSE ResolveExplicit(complex, p)

\* The closure `|complex| { ... }` of resolve_parent_selectors.
ResolveComplex(complex, p, implicit) ==
    IF ~ComplexContainsParent(complex)
    THEN IF ~implicit THEN <<complex>> ELSE ResolveImplicit(complex, p)
    ELSE ResolveExplicit(complex, p)

(***************************************************************************)
(* flatten_vertically: one iteration of `while !queues.is_empty()`.        *)
(***************************************************************************)
\* `queues.into_iter().filter(|queue| !queue.is_empty()).collect()`
RECURSIVE FilterNonEmpty(_)
FilterNonEmpty(qs) ==
    IF qs = <<>> THEN <<>>
    ELSE IF Head(qs) = <<>> THEN FilterNonEmpty(Tail(qs))
    ELSE <<Head(qs)>> \o FilterNonEmpty(Tail(qs))

\* The fronts popped by `for queue in queues.iter_mut()`, in queue order.
RECURSIVE PoppedFronts(_)
PoppedFronts(qs) ==
    IF qs = <<>> THEN <<>>
    ELSE IF Head(qs) = <<>> THEN PoppedFronts(Tail(qs))
    ELSE <<Head(Head(qs))>> \o PoppedFronts(Tail(qs))

\* The queues after the inner loop, before the filter.
PopAll(qs) ==
    [n \in 1..Len(qs) |-> IF qs[n] = <<>> THEN <<>> ELSE Tail(qs[n])]

\* QueuesAfterPass without the filter that drops the exhausted queues.
QueuesAfterPass_NoFilter(qs) == PopAll(qs)

\* What the queues hold after one pass.
QueuesAfterPass(qs) == FilterNonEmpty(PopAll(qs))

(***************************************************************************)
(* The selector lists the calls are made with.                             *)
(***************************************************************************)
\* a | & | &.b > a | & &-s | b + &
InputComplexes ==
    { ComplexSelector(<<Compound(<<Class("a")>>)>>, FALSE),
      ComplexSelector(<<Compound(<<Class("a")>>), Combinator(">"),
                        Compound(<<Class("b")>>)>>, TRUE),
      ComplexSelector(<<Compound(<<Parent("")>>)>>, FALSE),
      ComplexSelector(<<Compound(<<Parent(""), Class("b")>>), Combinator(">"),
                        Compound(<<Class("a")>>)>>, TRUE),
      ComplexSelector(<<Compound(<<Parent("")>>), Compound(<<Parent("-s")>>)>>,
                      FALSE),
      ComplexSelector(<<Compound(<<Class("b")>>), Combinator("+"),
                        Compound(<<Parent("")>>)>>, FALSE) }

\* p | q > r (written on a new line) | &
ParentComplexes ==
    { ComplexSelector(<<Compound(<<Class("p")>>)>>, FALSE),
      ComplexSelector(<<Compound(<<Class("q")>>), Combinator(">"),
                        Compound(<<Class("r")>>)>>, TRUE),
      ComplexSelector(<<Compound(<<Parent("")>>)>>, FALSE) }

InputLists == SeqsUpTo(InputComplexes, MaxListLen)

InputParents ==
    {None} \cup {Some(p) : p \in SeqsUpTo(ParentComplexes, MaxParentLen)}

\* ReturnedAsIs with the line_break hints dropped.
ReturnedAsIs_NoLineBreak(components) ==
    [n \in 1..Len(components) |->
        ComplexSelector(components[n].components, FALSE)]

\* `if !self.contains_parent_selector() { return self; }`
ReturnedAsIs(components) == components

Ok(components) == [kind |-> "ok", components |-> components]
Panic == [kind |-> "panic", components |-> <<>>]
Pending == [kind |-> "pending", components |-> <<>>]

Call(l, p, implicit, out) ==
    [selfList |-> l, parent |-> p, implicit_parent |-> implicit, out |-> out]

(***************************************************************************)
(* SelectorList::resolve_parent_selectors as steps.                        *)
(***************************************************************************)
UniIdle ==
    /\ uniSelf = <<>>
    /\ uniOther = <<>>
    /\ uniOut = None
    /\ supers = <<>>
    /\ uniPc = "idle"

DispIdle ==
    /\ dispList = <<>>
    /\ dispNext = 1
    /\ first = TRUE
    /\ written = <<>>
    /\ dispPc = "idle"

FnIdle ==
    /\ fnName = ""
    /\ fnArgs = <<>>
    /\ fnOut = <<>>
    /\ fnPc = "idle"

ValIdle ==
    /\ valOp = ""
    /\ valArgs = <<>>
    /\ valOut = <<>>
    /\ valPc = "idle"

LexIdle ==
    /\ buf = <<>>
    /\ tokens = <<>>
    /\ lexPc = "idle"

CssIdle ==
    /\ cssIn = <<>>
    /\ cssPos = 1
    /\ cssOut = <<>>
    /\ cssPc = "idle"

\* The parts of the model added after the first five are at rest.
RestIdle == ValIdle /\ LexIdle /\ CssIdle

AtIdle ==
    /\ rule = [kind |-> "none"]
    /\ super_selector = <<>>
    /\ scope = <<>>
    /\ work = <<>>
    /\ rows = <<>>
    /\ stmts = <<>>
    /\ iter = 0
    /\ evals = <<>>
    /\ last = <<>>
    /\ bodies = <<>>
    /\ atOut = [kind |-> "pending"]
    /\ atPc = "idle"

SelInit ==
    /\ AtIdle
    /\ UniIdle
    /\ DispIdle
    /\ FnIdle
    /\ RestIdle
    /\ selfList \in InputLists
    /\ parent \in InputParents
    /\ implicit_parent \in BOOLEAN
    /\ iterable = <<>>
    /\ queues = <<>>
    /\ result = <<>>
    /\ passes = 0
    /\ selOut = Pending
    /\ selPc = "call"
    /\ calls = <<>>

\* parent is None and the list holds no Parent: `return self`.
ReturnSelf ==
    /\ UNCHANGED outsideSel
    /\ selPc = "call"
    /\ ~parent.some
    /\ ~contains_parent_selector(selfList)
    /\ selOut' = Ok(ReturnedAsIs(selfList))
    /\ selPc' = "done"
    /\ calls' = Append(calls, Call(selfList, parent, implicit_parent, selOut'))
    /\ UNCHANGED <<selfList, parent, implicit_parent, iterable, queues, result,
                   passes>>

\* parent is None and the list holds a Parent: `todo!(...)` panics.
TopLevelParent ==
    /\ UNCHANGED outsideSel
    /\ selPc = "call"
    /\ ~parent.some
    /\ contains_parent_selector(selfList)
    /\ selOut' = Panic
    /\ selPc' = "done"
    /\ calls' = Append(calls, Call(selfList, parent, implicit_parent, selOut'))
    /\ UNCHANGED <<selfList, parent, implicit_parent, iterable, queues, result,
                   passes>>

\* parent is Some: map the closure over the complexes and enter
\* flatten_vertically with the per-complex expansions.
MapComplexes ==
    /\ UNCHANGED outsideSel
    /\ selPc = "call"
    /\ parent.some
    /\ iterable' = [i \in 1..Len(selfList) |->
                      ResolveComplex(selfList[i], parent.components,
                                     implicit_parent)]
    /\ queues' = iterable'
    /\ result' = <<>>
    /\ passes' = 0
    /\ selPc' = "flatten"
    /\ UNCHANGED <<selfList, parent, implicit_parent, selOut, calls>>

\* One iteration of `while !queues.is_empty()`.
FlattenPass ==
    /\ UNCHANGED outsideSel
    /\ selPc = "flatten"
    /\ queues # <<>>
    /\ result' = result \o PoppedFronts(queues)
    /\ queues' = QueuesAfterPass(queues)
    /\ passes' = passes + 1
    /\ UNCHANGED <<selfList, parent, implicit_parent, iterable, selOut, selPc,
                   calls>>

\* The loop is left: `result` becomes the components of the returned list.
FlattenReturn ==
    /\ UNCHANGED outsideSel
    /\ selPc = "flatten"
    /\ queues = <<>>
    /\ selOut' = Ok(result)
    /\ selPc' = "done"
    /\ calls' = Append(calls, Call(selfList, parent, implicit_parent, selOut'))
    /\ UNCHANGED <<selfList, parent, implicit_parent, iterable, queues, result,
                   passes>>

\* The caller resolves the returned list once more, against no parent.
ResolveAgain ==
    /\ UNCHANGED outsideSel
    /\ selPc = "done"
    /\ selOut.kind = "ok"
    /\ Len(calls) <= MaxRounds
    /\ selfList' = selOut.components
    /\ parent' = None
    /\ implicit_parent' \in BOOLEAN
    /\ iterable' = <<>>
    /\ queues' = <<>>
    /\ result' = <<>>
    /\ passes' = 0
    /\ selOut' = Pending
    /\ selPc' = "call"
    /\ UNCHANGED calls

SelNext ==
    \/ ReturnSelf
    \/ TopLevelParent
    \/ MapComplexes
    \/ FlattenPass
    \/ FlattenReturn
    \/ ResolveAgain

(***************************************************************************)
(* Specifications.                                                         *)
(***************************************************************************)
SpecSel == SelInit /\ [][SelNext]_vars

(***************************************************************************)
(* Properties of resolve_parent_selectors and flatten_vertically.          *)
(***************************************************************************)
Count(seq, x) == Cardinality({n \in 1..Len(seq) : seq[n] = x})

Prefixed(l, p) ==
    ComplexSelector(p.components \o l.components, l.line_break \/ p.line_break)

PairsOf(L, P) == (1..Len(L)) \X (1..Len(P))

\* C1: a call with a parent and implicit_parent on a list without Parent
\* returns exactly one complex per pair (l, p): p's components followed by
\* l's, with line_break = l.line_break OR p.line_break.
C1_ImplicitCartesian ==
    \A c \in 1..Len(calls) :
        LET L == calls[c].selfList
            P == calls[c].parent.components
            R == calls[c].out.components
        IN  (/\ calls[c].parent.some
             /\ calls[c].implicit_parent
             /\ ~contains_parent_selector(L))
            => /\ calls[c].out.kind = "ok"
               /\ Len(R) = Len(L) * Len(P)
               /\ \A pr \in PairsOf(L, P) :
                    Count(R, Prefixed(L[pr[1]], P[pr[2]])) =
                        Cardinality({qr \in PairsOf(L, P) :
                            Prefixed(L[qr[1]], P[qr[2]]) =
                                Prefixed(L[pr[1]], P[pr[2]])})

C1_Witness ==
    \E c \in 1..Len(calls) :
        /\ calls[c].parent.some
        /\ calls[c].implicit_parent
        /\ ~contains_parent_selector(calls[c].selfList)
        /\ Len(calls[c].selfList) = 2
        /\ Len(calls[c].parent.components) = 2
        /\ calls[c].selfList[1] # calls[c].selfList[2]
        /\ calls[c].parent.components[1] # calls[c].parent.components[2]
        /\ \E n \in 1..Len(calls[c].out.components) :
                calls[c].out.components[n].line_break
        /\ \E n \in 1..Len(calls[c].out.components) :
                ~calls[c].out.components[n].line_break

\* The positions of the Parent-containing compounds of a complex, in order.
ParentPositions(complex) ==
    {m \in 1..Len(complex.components) :
        /\ is_compound(complex.components[m])
        /\ CompoundContainsParent(complex.components[m])}

\* The parent complex chosen for the Parent-containing compound at position m
\* in the n-th expansion: the earlier the compound, the slower it varies.
ChoiceAt(complex, P, n, m) ==
    LET later == Cardinality({x \in ParentPositions(complex) : x > m})
    IN  (((n - 1) \div (Len(P) ^ later)) % Len(P)) + 1

RECURSIVE Flat(_)
Flat(parts) == IF parts = <<>> THEN <<>> ELSE Head(parts) \o Flat(Tail(parts))

ExpectedExpansion(complex, P, n) ==
    Flat([m \in 1..Len(complex.components) |->
            IF m \in ParentPositions(complex)
            THEN CompoundResolve(complex.components[m], P)
                    .components[ChoiceAt(complex, P, n, m)].components
            ELSE <<complex.components[m]>>])

\* C2: with a parent, a complex that contains Parent expands to |P|^k
\* complexes (k its Parent-containing compounds), one per choice of a parent
\* complex for each of them, earlier compounds varying slowest; each
\* Parent-containing compound is replaced by the resolved parent components,
\* every other component stays in place.
C2_ExplicitCrossProduct ==
    (selPc \in {"flatten", "done"} /\ parent.some) =>
        \A i \in 1..Len(selfList) :
            ComplexContainsParent(selfList[i]) =>
                LET P == parent.components
                    k == Cardinality(ParentPositions(selfList[i]))
                IN  /\ Len(iterable[i]) = Len(P) ^ k
                    /\ \A n \in 1..Len(iterable[i]) :
                         iterable[i][n].components =
                            ExpectedExpansion(selfList[i], P, n)

C2_Witness ==
    /\ selPc = "flatten"
    /\ Len(parent.components) = 2
    /\ parent.components[1] # parent.components[2]
    /\ \E i \in 1..Len(selfList) :
        /\ Cardinality(ParentPositions(selfList[i])) = 2
        /\ Len(iterable[i]) = 4
    /\ \E i \in 1..Len(selfList) :
        /\ Cardinality(ParentPositions(selfList[i])) = 1
        /\ Len(selfList[i].components) = 3

\* The places <<rank, list>> of the elements of a list of lists.
Places(it) ==
    {pl \in (1..Len(Flat(it))) \X (1..Len(it)) : pl[1] <= Len(it[pl[2]])}

\* The position of a place in vertical order: by rank, then by list.
VerticalPosition(it, pl) ==
    Cardinality({x \in Places(it) :
        x[1] < pl[1] \/ (x[1] = pl[1] /\ x[2] <= pl[2])})

IsVerticalFlattening(it, r) ==
    /\ Len(r) = Cardinality(Places(it))
    /\ \A pl \in Places(it) : r[VerticalPosition(it, pl)] = it[pl[2]][pl[1]]

\* What is left to do in flatten_vertically.
Remaining(qs) == Len(qs) + Len(Flat(qs))

\* C3: flatten_vertically returns the first elements of the lists in list
\* order, then the second elements, and so on (every element exactly once,
\* the order inside each list kept), and its loop terminates: every
\* iteration strictly decreases what is left, and the loop is left once
\* nothing remains.
C3_VerticalFlatten ==
    [][/\ (selPc = "flatten" /\ selPc' = "done")
            => /\ selOut'.kind = "ok"
               /\ IsVerticalFlattening(iterable, selOut'.components)
       /\ (selPc = "flatten" /\ queues # <<>>)
            => /\ selPc' = "flatten"
               /\ Remaining(queues') < Remaining(queues)
       /\ (selPc = "flatten" /\ queues = <<>>) => selPc' = "done"]_vars

C3_Witness ==
    /\ selPc = "done"
    /\ parent.some
    /\ Len(iterable) = 2
    /\ Len(iterable[1]) = 4
    /\ Len(iterable[2]) = 1
    /\ selOut.kind = "ok"
    /\ Len(selOut.components) = 5

\* C4: a list without Parent is returned unchanged when implicit_parent is
\* false or parent is None.
C4_UnchangedWithoutParent ==
    \A c \in 1..Len(calls) :
        (/\ ~contains_parent_selector(calls[c].selfList)
         /\ (~calls[c].implicit_parent \/ ~calls[c].parent.some))
        => calls[c].out = Ok(calls[c].selfList)

C4_Witness ==
    \E c \in 1..Len(calls) :
        /\ ~contains_parent_selector(calls[c].selfList)
        /\ ~calls[c].implicit_parent
        /\ calls[c].parent.some
        /\ Len(calls[c].parent.components) = 2
        /\ Len(calls[c].selfList) = 2
        /\ calls[c].selfList[1].line_break # calls[c].selfList[2].line_break

\* C5: a list that holds a Parent, resolved against no parent, yields an
\* error returned to the caller: no selector list and no abort.
C5_TopLevelParentIsError ==
    \A c \in 1..Len(calls) :
        (contains_parent_selector(calls[c].selfList) /\ ~calls[c].parent.some)
        => calls[c].out.kind = "err"

\* C6: when R, the result of resolving against a parent with
\* implicit_parent, holds no Parent, resolving R against no parent returns R.
C6_ResolvedIsFixedPoint ==
    \A c \in 1..(Len(calls) - 1) :
        (/\ calls[c].parent.some
         /\ calls[c].implicit_parent
         /\ calls[c].out.kind = "ok"
         /\ ~contains_parent_selector(calls[c].out.components)
         /\ calls[c + 1].selfList = calls[c].out.components
         /\ ~calls[c + 1].parent.some
         /\ calls[c + 1].implicit_parent)
        => calls[c + 1].out = Ok(calls[c].out.components)

C6_Witness ==
    \E c \in 1..(Len(calls) - 1) :
        /\ calls[c].parent.some
        /\ calls[c].implicit_parent
        /\ contains_parent_selector(calls[c].selfList)
        /\ Len(calls[c].out.components) >= 2
        /\ ~contains_parent_selector(calls[c].out.components)
        /\ ~calls[c + 1].parent.some
        /\ calls[c + 1].implicit_parent
        /\ calls[c + 1].out.kind = "ok"
        /\ \E n \in 1..Len(calls[c].out.components) :
                calls[c].out.components[n].line_break

(***************************************************************************)
(* Values, scopes, expressions and bodies of the at-rule engine.           *)
(***************************************************************************)
\* Value::Dimension: the number n / d; the built-ins modelled ignore the unit.
Ratio(n, d) == [t |-> "num", n |-> n, d |-> d]
Num(n) == Ratio(n, 1)
\* Value::Ident(s, QuoteKind::None)
Str(s) == [t |-> "str", s |-> s]
Null == [t |-> "null"]
True == [t |-> "bool", b |-> TRUE]
False == [t |-> "bool", b |-> FALSE]
\* Value::List(items, separator, brackets)
List(items, sep, br) == [t |-> "list", items |-> items, sep |-> sep, br |-> br]
\* Value::Map: its entries <<key, value>> in insertion order
Map(entries) == [t |-> "map", entries |-> entries]

\* A name the scope holds no variable for.
Undefined == [t |-> "undefined"]

VarNames == {"i", "x", "y"}

\* Scope::insert_var
insert_var(sc, name, val) == [sc EXCEPT ![name] = val]

\* Expressions, as the token vectors handed to Value::from_vec.
Lit(v) == [e |-> "lit", v |-> v, name |-> "", n |-> 0]
Var(name) == [e |-> "var", v |-> Null, name |-> name, n |-> 0]
Less(name, n) == [e |-> "less", v |-> Null, name |-> name, n |-> n]
Plus(name, n) == [e |-> "plus", v |-> Null, name |-> name, n |-> n]
NoTokens == [e |-> "empty", v |-> Null, name |-> "", n |-> 0]

Value(v) == [ok |-> TRUE, v |-> v, err |-> ""]
Failure(msg) == [ok |-> FALSE, v |-> Null, err |-> msg]

\* Value::from_vec(tokens, scope, super_selector)
from_vec(expr, sc) ==
    CASE expr.e = "lit" -> Value(expr.v)
      [] expr.e = "empty" -> Failure("Expected expression.")
      [] sc[expr.name] = Undefined -> Failure("Undefined variable.")
      [] expr.e = "var" -> Value(sc[expr.name])
      [] sc[expr.name].t # "num" -> Failure("Undefined operation.")
      [] expr.e = "less" -> Value(IF sc[expr.name].n < expr.n THEN True ELSE False)
      [] OTHER -> Value(Ratio(sc[expr.name].n + expr.n * sc[expr.name].d,
                              sc[expr.name].d))

\* Value::is_true: null and false are falsey, everything else is truthy.
is_true(v) == v # Null /\ v # False

\* Display of a number: the model's numbers are whole or odd halves.
NumberString(n, d) ==
    IF d = 1 THEN ToString(n)
    ELSE (IF n < 0 THEN "-" ELSE "")
            \o ToString((IF n < 0 THEN 0 - n ELSE n) \div 2) \o ".5"

\* ListSeparator::as_str
as_str(sep) == IF sep = "comma" THEN ", " ELSE " "

\* `.collect::<Vec<String>>().join(sep)` over the strings from index k on.
RECURSIVE JoinFrom(_, _, _)
JoinFrom(strings, k, sep) ==
    IF k > Len(strings) THEN ""
    ELSE IF k = Len(strings) THEN strings[k]
    ELSE strings[k] \o sep \o JoinFrom(strings, k + 1, sep)

\* impl Display for Value (`to_string`).
RECURSIVE to_string(_)
to_string(v) ==
    CASE v.t = "num" -> NumberString(v.n, v.d)
      [] v.t = "str" -> v.s
      [] v.t = "bool" -> IF v.b THEN "true" ELSE "false"
      [] v.t = "null" -> "null"
      [] v.t = "list" ->
            (IF v.br = "bracketed" THEN "[" ELSE "")
            \o JoinFrom([n \in 1..Len(v.items) |-> to_string(v.items[n])], 1,
                        as_str(v.sep))
            \o (IF v.br = "bracketed" THEN "]" ELSE "")
      [] OTHER ->
            "(" \o JoinFrom([n \in 1..Len(v.entries) |->
                                to_string(v.entries[n][1]) \o ": "
                                \o to_string(v.entries[n][2])], 1, ", ")
            \o ")"

\* Value::inspect: the rendering @debug prints; an empty list shows as ().
inspect(v) ==
    IF v.t = "list" /\ v.items = <<>> /\ v.br = "none" THEN "()"
    ELSE to_string(v)

\* The statements of a body, as written.
Decl(name, expr) == [s |-> "decl", name |-> name, expr |-> expr]
StyleDecl(prop, expr) == [s |-> "style", name |-> prop, expr |-> expr]
NestedRule(sel) == [s |-> "rule", name |-> sel, expr |-> NoTokens]
NestedAtRule(name) == [s |-> "atrule", name |-> name, expr |-> NoTokens]

\* Stmt::Style, Stmt::RuleSet, Stmt::AtRule
Style(prop, v) == [stmt |-> "Style", property |-> prop, value |-> v]
RuleSet(selector, rules, super) ==
    [stmt |-> "RuleSet", selector |-> selector, rules |-> rules,
     super_selector |-> super]
AtRuleStmt(name) == [stmt |-> "AtRule", name |-> name]

Evaluated(st, sc, wr) == [ok |-> TRUE, stmts |-> st, scope |-> sc, writes |-> wr, err |-> ""]
Failed(sc, wr, msg) == [ok |-> FALSE, stmts |-> <<>>, scope |-> sc, writes |-> wr, err |-> msg]

\* eat_stmts(body, scope, super_selector) from statement k on: a variable
\* declaration is inserted into `scope`, every other statement is returned;
\* the first failing evaluation ends it. `wr` lists the variables written.
RECURSIVE EatFrom(_, _, _, _, _, _)
EatFrom(body, k, sc, sel, st, wr) ==
    IF k > Len(body) THEN Evaluated(st, sc, wr)
    ELSE LET b == body[k]
             v == from_vec(b.expr, sc)
         IN  CASE b.s = "rule" ->
                    EatFrom(body, k + 1, sc, sel,
                            Append(st, RuleSet(sel \o <<b.name>>, <<>>, <<>>)), wr)
               [] b.s = "atrule" ->
                    EatFrom(body, k + 1, sc, sel, Append(st, AtRuleStmt(b.name)), wr)
               [] ~v.ok -> Failed(sc, wr, v.err)
               [] b.s = "decl" ->
                    EatFrom(body, k + 1, insert_var(sc, b.name, v.v), sel, st,
                            Append(wr, b.name))
               [] OTHER ->
                    EatFrom(body, k + 1, sc, sel, Append(st, Style(b.name, v.v)), wr)

eat_stmts(body, sc, sel) == EatFrom(body, 1, sc, sel, <<>>, <<>>)

\* eat_stmts_at_root(body, scope, selector, 0, is_some)
eat_stmts_at_root(body, sc, sel) == EatFrom(body, 1, sc, sel, <<>>, <<>>)

\* Selector::from_tokens: the selector written after @at-root; "#{$u}"
\* interpolates a variable no scope defines.
SelectorFromTokens(toks) ==
    IF \E n \in 1..Len(toks) : toks[n] = "#{$u}"
    THEN Failure("Undefined variable.")
    ELSE Value(toks)

\* Selector::replace(super_selector, this): `&` in `this` stands for the
\* super-selector.
Replace(super, this) ==
    IF super = <<>> \/ this = <<>> THEN this
    ELSE Flat([n \in 1..Len(this) |->
                 IF this[n] = "&" THEN super ELSE <<this[n]>>])

(***************************************************************************)
(* The at-rules handed to AtRule::from_tokens.                             *)
(***************************************************************************)
EachRule(names, expr, body) ==
    [kind |-> "Each", vars |-> names, expr |-> expr, selector |-> <<>>, body |-> body]
WhileRule(cond, body) ==
    [kind |-> "While", vars |-> <<>>, expr |-> cond, selector |-> <<>>, body |-> body]
ErrorRule(expr) ==
    [kind |-> "Error", vars |-> <<>>, expr |-> expr, selector |-> <<>>, body |-> <<>>]
WarnRule(expr) ==
    [kind |-> "Warn", vars |-> <<>>, expr |-> expr, selector |-> <<>>, body |-> <<>>]
DebugRule(expr) ==
    [kind |-> "Debug", vars |-> <<>>, expr |-> expr, selector |-> <<>>, body |-> <<>>]
AtRootRule(sel, body) ==
    [kind |-> "AtRoot", vars |-> <<>>, expr |-> NoTokens, selector |-> sel, body |-> body]

\* { $i: $i + 1; w: $i } | { w: $x; b {} h: $y } |
\* { c: 1; $i: null; @media; d: 2 } | { w: $y + 1; $y: null } | { }
Bodies ==
    { <<Decl("i", Plus("i", 1)), StyleDecl("w", Var("i"))>>,
      <<StyleDecl("w", Var("x")), NestedRule("b"), StyleDecl("h", Var("y"))>>,
      <<StyleDecl("c", Lit(Num(1))), Decl("i", Lit(Null)), NestedAtRule("media"),
        StyleDecl("d", Lit(Num(2)))>>,
      <<StyleDecl("w", Plus("y", 1)), Decl("y", Lit(Null))>>,
      <<>> }

\* (nothing) | $i < 2 | $i | true
Conditions == {NoTokens, Less("i", 2), Var("i"), Lit(True)}

\* $x | $x, $y
EachVars == {<<"x">>, <<"x", "y">>}

\* 1 2 | (1, 2, 3), [4] | 7 | (1: 2, 3: 4) | () | $i
Iterables ==
    { Lit(List(<<Num(1), Num(2)>>, "space", "none")),
      Lit(List(<<List(<<Num(1), Num(2), Num(3)>>, "comma", "none"),
                 List(<<Num(4)>>, "space", "bracketed")>>, "comma", "none")),
      Lit(Num(7)),
      Lit(Map(<<<<Num(1), Num(2)>>, <<Num(3), Num(4)>>>>)),
      Lit(List(<<>>, "space", "none")),
      Var("i") }

\* (none) | b | & c | #{$u}
AtRootSelectors == {<<>>, <<"b">>, <<"&", "c">>, <<"#{$u}">>}

\* oops | $i | $x + 1 | (nothing) | [1, null] | ()
Messages ==
    { Lit(Str("oops")), Var("i"), Plus("x", 1), NoTokens,
      Lit(List(<<Num(1), Null>>, "comma", "bracketed")),
      Lit(List(<<>>, "space", "none")) }

Rules ==
    {EachRule(n, e, b) : n \in EachVars, e \in Iterables, b \in Bodies}
    \cup {ErrorRule(m) : m \in Messages}
    \cup {WarnRule(m) : m \in Messages}
    \cup {DebugRule(m) : m \in Messages}
    \cup {WhileRule(c, b) : c \in Conditions, b \in Bodies}
    \cup {AtRootRule(sl, b) : sl \in AtRootSelectors, b \in Bodies}

Scopes ==
    {[v \in VarNames |-> IF v = "i" THEN a ELSE b] :
        a \in {Undefined, Num(0), Num(1)}, b \in {Undefined, Num(5)}}

SuperSelectors == {<<>>, <<"a">>}

\* SassResult<AtRule>
OkRule(kind, st) == [kind |-> "ok", rule |-> kind, stmts |-> st, msg |-> ""]
ErrRule(msg) == [kind |-> "err", rule |-> "", stmts |-> <<>>, msg |-> msg]
\* AtRule::Warn(pos, text), AtRule::Debug(pos, text)
Diagnostic(kind, text) == [kind |-> "ok", rule |-> kind, stmts |-> <<>>, msg |-> text]

\* A value consumed as a list of rows: a list's items, a map's entries as
\* two-element space-separated lists, any other value alone.
AsRows(v) ==
    CASE v.t = "list" -> v.items
      [] v.t = "map" ->
            [n \in 1..Len(v.entries) |->
                List(<<v.entries[n][1], v.entries[n][2]>>, "space", "none")]
      [] OTHER -> <<v>>

\* `vars.zip(this_iterator.chain(once(Null).cycle()))`, from variable j on.
RECURSIVE BindEach(_, _, _, _)
BindEach(names, j, this_iterator, sc) ==
    IF j > Len(names) THEN sc
    ELSE BindEach(names, j + 1, this_iterator,
            insert_var(sc, names[j],
                IF j <= Len(this_iterator) THEN this_iterator[j] ELSE Null))

\* The binding of the loop variables of @each for one row.
BindRow(names, row, sc) ==
    IF Len(names) = 1
    THEN insert_var(sc, names[1], List(AsRows(row), "space", "none"))
    ELSE BindEach(names, 1, AsRows(row), sc)

\* `last` after the variables `names` were written, `sc` holding their values.
Written(lastf, names, sc) ==
    [v \in VarNames |->
        IF \E n \in 1..Len(names) : names[n] = v THEN sc[v] ELSE lastf[v]]

(***************************************************************************)
(* AtRule::from_tokens as steps.                                           *)
(***************************************************************************)
SelIdle ==
    /\ selfList = <<>>
    /\ parent = None
    /\ implicit_parent = FALSE
    /\ iterable = <<>>
    /\ queues = <<>>
    /\ result = <<>>
    /\ passes = 0
    /\ selOut = Pending
    /\ selPc = "idle"
    /\ calls = <<>>

AtInit ==
    /\ SelIdle
    /\ UniIdle
    /\ DispIdle
    /\ FnIdle
    /\ RestIdle
    /\ rule \in Rules
    /\ super_selector \in SuperSelectors
    /\ scope \in Scopes
    /\ work = <<>>
    /\ rows = <<>>
    /\ stmts = <<>>
    /\ iter = 0
    /\ evals = <<>>
    /\ last = [v \in VarNames |-> Undefined]
    /\ bodies = <<>>
    /\ atOut = [kind |-> "pending"]
    /\ atPc = "start"

\* @error: the message is evaluated; its string form is the error returned.
AtError ==
    /\ UNCHANGED outsideAt
    /\ atPc = "start"
    /\ rule.kind = "Error"
    /\ LET message == from_vec(rule.expr, scope)
       IN  atOut' = IF message.ok THEN ErrRule(to_string(message.v))
                    ELSE ErrRule(message.err)
    /\ atPc' = "done"
    /\ UNCHANGED <<rule, super_selector, scope, work, rows, stmts, iter, evals,
                   last, bodies>>

\* @warn: the message is evaluated; AtRule::Warn carries its string form.
AtWarn ==
    /\ UNCHANGED outsideAt
    /\ atPc = "start"
    /\ rule.kind = "Warn"
    /\ LET message == from_vec(rule.expr, scope)
       IN  atOut' = IF message.ok THEN Diagnostic("Warn", to_string(message.v))
                    ELSE ErrRule(message.err)
    /\ atPc' = "done"
    /\ UNCHANGED <<rule, super_selector, scope, work, rows, stmts, iter, evals,
                   last, bodies>>

\* @debug: the message is evaluated; AtRule::Debug carries its inspect form.
AtDebug ==
    /\ UNCHANGED outsideAt
    /\ atPc = "start"
    /\ rule.kind = "Debug"
    /\ LET message == from_vec(rule.expr, scope)
       IN  atOut' = IF message.ok THEN Diagnostic("Debug", inspect(message.v))
                    ELSE ErrRule(message.err)
    /\ atPc' = "done"
    /\ UNCHANGED <<rule, super_selector, scope, work, rows, stmts, iter, evals,
                   last, bodies>>

\* @each: the iterable is evaluated and coerced to the rows to loop over.
EachStart ==
    /\ UNCHANGED outsideAt
    /\ atPc = "start"
    /\ rule.kind = "Each"
    /\ LET v == from_vec(rule.expr, scope)
       IN  IF v.ok
           THEN /\ rows' = AsRows(v.v)
                /\ atPc' = "each"
                /\ atOut' = atOut
           ELSE /\ rows' = rows
                /\ atPc' = "done"
                /\ atOut' = ErrRule(v.err)
    /\ UNCHANGED <<rule, super_selector, scope, work, stmts, iter, evals, last,
                   bodies>>

\* @each: `for row in iterator`, the loop variables are bound in `scope`.
EachBind ==
    /\ UNCHANGED outsideAt
    /\ atPc = "each"
    /\ iter < Len(rows)
    /\ scope' = BindRow(rule.vars, rows[iter + 1], scope)
    /\ last' = Written(last, rule.vars, scope')
    /\ iter' = iter + 1
    /\ atPc' = "each_body"
    /\ UNCHANGED <<rule, super_selector, work, rows, stmts, evals, bodies, atOut>>

\* EachBody with a failing body ending the loop early instead of failing the
\* rule: the statements of the earlier iterations are returned.
EachBody_BreakOnError ==
    /\ UNCHANGED outsideAt
    /\ atPc = "each_body"
    /\ LET r == eat_stmts(rule.body, scope, super_selector)
       IN  /\ scope' = r.scope
           /\ last' = Written(last, r.writes, r.scope)
           /\ IF r.ok
              THEN /\ stmts' = stmts \o r.stmts
                   /\ bodies' = Append(bodies, r.stmts)
                   /\ atPc' = "each"
                   /\ atOut' = atOut
              ELSE /\ stmts' = stmts
                   /\ bodies' = bodies
                   /\ atPc' = "done"
                   /\ atOut' = OkRule("Each", stmts)
    /\ UNCHANGED <<rule, super_selector, work, rows, iter, evals>>

\* @each: the body is evaluated against `scope` and its statements kept.
EachBody ==
    /\ UNCHANGED outsideAt
    /\ atPc = "each_body"
    /\ LET r == eat_stmts(rule.body, scope, super_selector)
       IN  /\ scope' = r.scope
           /\ last' = Written(last, r.writes, r.scope)
           /\ IF r.ok
              THEN /\ stmts' = stmts \o r.stmts
                   /\ bodies' = Append(bodies, r.stmts)
                   /\ atPc' = "each"
                   /\ atOut' = atOut
              ELSE /\ stmts' = stmts
                   /\ bodies' = bodies
                   /\ atPc' = "done"
                   /\ atOut' = ErrRule(r.err)
    /\ UNCHANGED <<rule, super_selector, work, rows, iter, evals>>

\* @each: the rows are exhausted, AtRule::Each(stmts) is returned.
EachReturn ==
    /\ UNCHANGED outsideAt
    /\ atPc = "each"
    /\ iter = Len(rows)
    /\ atOut' = OkRule("Each", stmts)
    /\ atPc' = "done"
    /\ UNCHANGED <<rule, super_selector, scope, work, rows, stmts, iter, evals,
                   last, bodies>>

\* @while: an empty condition is rejected; otherwise the loop gets
\* `scope.clone()` as its scope.
WhileStart ==
    /\ UNCHANGED outsideAt
    /\ atPc = "start"
    /\ rule.kind = "While"
    /\ IF rule.expr = NoTokens
       THEN /\ atOut' = ErrRule("Expected expression.")
            /\ atPc' = "done"
            /\ work' = work
       ELSE /\ atOut' = atOut
            /\ atPc' = "while"
            /\ work' = scope
    /\ UNCHANGED <<rule, super_selector, scope, rows, stmts, iter, evals, last,
                   bodies>>

\* WhileCond with the condition evaluated against the scope as it was when
\* the loop began.
WhileCond_InitialScope ==
    /\ UNCHANGED outsideAt
    /\ atPc = "while"
    /\ LET v == from_vec(rule.expr, scope)
       IN  IF ~v.ok
           THEN /\ atOut' = ErrRule(v.err)
                /\ atPc' = "done"
                /\ evals' = evals
           ELSE /\ evals' = Append(evals, is_true(v.v))
                /\ IF is_true(v.v)
                   THEN atPc' = "while_body" /\ atOut' = atOut
                   ELSE atPc' = "done" /\ atOut' = OkRule("While", stmts)
    /\ UNCHANGED <<rule, super_selector, scope, work, rows, stmts, iter, last,
                   bodies>>

\* @while: the condition is evaluated against the loop's scope.
WhileCond ==
    /\ UNCHANGED outsideAt
    /\ atPc = "while"
    /\ LET v == from_vec(rule.expr, work)
       IN  IF ~v.ok
           THEN /\ atOut' = ErrRule(v.err)
                /\ atPc' = "done"
                /\ evals' = evals
           ELSE /\ evals' = Append(evals, is_true(v.v))
                /\ IF is_true(v.v)
                   THEN atPc' = "while_body" /\ atOut' = atOut
                   ELSE atPc' = "done" /\ atOut' = OkRule("While", stmts)
    /\ UNCHANGED <<rule, super_selector, scope, work, rows, stmts, iter, last,
                   bodies>>

\* @while: the body is evaluated against the loop's scope.
WhileBody ==
    /\ UNCHANGED outsideAt
    /\ atPc = "while_body"
    /\ iter < MaxIter
    /\ LET r == eat_stmts(rule.body, work, super_selector)
       IN  /\ work' = r.scope
           /\ last' = Written(last, r.writes, r.scope)
           /\ iter' = iter + 1
           /\ IF r.ok
              THEN /\ stmts' = stmts \o r.stmts
                   /\ bodies' = Append(bodies, r.stmts)
                   /\ atPc' = "while"
                   /\ atOut' = atOut
              ELSE /\ stmts' = stmts
                   /\ bodies' = bodies
                   /\ atPc' = "done"
                   /\ atOut' = ErrRule(r.err)
    /\ UNCHANGED <<rule, super_selector, scope, rows, evals>>

\* `Stmt::Style(..)` of the filter_map over the evaluated body.
IsStyle(st) == st.stmt = "Style"

IsNotStyle(st) == st.stmt # "Style"

\* `styles`: the declarations pulled out of the evaluated body.
Styles(raw) == SelectSeq(raw, IsStyle)

\* RawStmts without the filter: the declarations stay in the statements.
RawStmts_Unfiltered(raw) == raw

\* `raw_stmts`: what the filter_map lets through.
RawStmts(raw) == SelectSeq(raw, IsNotStyle)

\* The selector @at-root works with: the written selector with `&` replaced,
\* or `super_selector` when that is empty.
AtRootSelector(super, this) ==
    IF Replace(super, this) = <<>> THEN super ELSE Replace(super, this)

\* `stmts`: the rule-set of the declarations, then raw_stmts.
AtRootStmts(selector, raw) ==
    <<RuleSet(selector, Styles(raw), <<>>)>> \o RawStmts(raw)

\* @at-root: the whole handler.
AtRoot ==
    /\ UNCHANGED outsideAt
    /\ atPc = "start"
    /\ rule.kind = "AtRoot"
    /\ atPc' = "done"
    /\ LET parsed == SelectorFromTokens(rule.selector)
           selector == AtRootSelector(super_selector, parsed.v)
           r == eat_stmts_at_root(rule.body, scope, selector)
       IN  IF ~parsed.ok
           THEN /\ atOut' = ErrRule(parsed.err)
                /\ UNCHANGED <<scope, last, stmts, bodies>>
           ELSE /\ scope' = r.scope
                /\ last' = Written(last, r.writes, r.scope)
                /\ IF r.ok
                   THEN /\ stmts' = AtRootStmts(selector, r.stmts)
                        /\ bodies' = <<r.stmts>>
                        /\ atOut' = OkRule("AtRoot", stmts')
                   ELSE /\ atOut' = ErrRule(r.err)
                        /\ UNCHANGED <<stmts, bodies>>
    /\ UNCHANGED <<rule, super_selector, work, rows, iter, evals>>

AtNext ==
    \/ AtError
    \/ AtWarn
    \/ AtDebug
    \/ EachStart
    \/ EachBind
    \/ EachBody
    \/ EachReturn
    \/ WhileStart
    \/ WhileCond
    \/ WhileBody
    \/ AtRoot

SpecAt == AtInit /\ [][AtNext]_vars


(***************************************************************************)
(* Properties of AtRule::from_tokens.                                      *)
(***************************************************************************)
\* C7: once an @each or @while rule is processed, every variable written
\* while running it has its last written value in the caller's scope.
C7_WritesReachCallerScope ==
    (atPc = "done" /\ rule.kind \in {"Each", "While"} /\ atOut.kind = "ok")
    => \A v \in VarNames : last[v] # Undefined => scope[v] = last[v]

\* C8: in every @each iteration a single loop variable is bound to the row
\* itself; of several loop variables the j-th is bound to the j-th element
\* of the row coerced to a list, or to null when the row is shorter, and
\* further elements of the row are ignored.
C8_EachBindsRow ==
    atPc = "each_body" =>
        LET row == rows[iter]
            names == rule.vars
        IN  IF Len(names) = 1
            THEN scope[names[1]] = row
            ELSE \A j \in 1..Len(names) :
                    scope[names[j]] =
                        IF j <= Len(AsRows(row)) THEN AsRows(row)[j] ELSE Null

\* The scope of a @while loop after k evaluations of its body.
RECURSIVE ScopeAfter(_)
ScopeAfter(k) ==
    IF k = 0 THEN scope
    ELSE eat_stmts(rule.body, ScopeAfter(k - 1), super_selector).scope

\* The statements the k-th evaluation of the body of a @while loop returns.
StmtsOfIteration(k) ==
    eat_stmts(rule.body, ScopeAfter(k - 1), super_selector).stmts

OtherPlaces(raw) == {n \in 1..Len(raw) : raw[n].stmt # "Style"}

StylePlaces(raw) == {n \in 1..Len(raw) : raw[n].stmt = "Style"}

\* `part` holds the statements of `raw` at `places`, in the order of `raw`.
HoldsInOrder(part, raw, places) ==
    /\ Len(part) = Cardinality(places)
    /\ \A n \in places : part[Cardinality({m \in places : m <= n})] = raw[n]

\* The statements @at-root returns: one rule-set of the body's declarations
\* in source order, then the body's other statements in source order.
AtRootShape(out, raw) ==
    /\ Len(out) >= 1
    /\ out[1].stmt = "RuleSet"
    /\ HoldsInOrder(out[1].rules, raw, StylePlaces(raw))
    /\ HoldsInOrder(Tail(out), raw, OtherPlaces(raw))

\* C10, as claimed: the rule-set's selector is the replacement selector, or
\* the empty selector when no selector is written.
C10_AtRootSelectorCleared ==
    (atPc = "done" /\ rule.kind = "AtRoot" /\ atOut.kind = "ok")
    => /\ AtRootShape(atOut.stmts, bodies[1])
       /\ atOut.stmts[1].selector =
            IF rule.selector = <<>> THEN <<>>
            ELSE Replace(super_selector, rule.selector)

\* C10, amended: the statements returned for @at-root are one rule-set
\* followed by the body's non-declaration statements in source order; the
\* rule-set's rules are the body's declarations in source order; its
\* selector is the replacement selector, or the enclosing super-selector
\* when no selector is written.
C10_AtRootStatements ==
    (atPc = "done" /\ rule.kind = "AtRoot" /\ atOut.kind = "ok")
    => /\ AtRootShape(atOut.stmts, bodies[1])
       /\ atOut.stmts[1].selector =
            IF rule.selector = <<>> THEN super_selector
            ELSE Replace(super_selector, rule.selector)

C10_Witness ==
    /\ atPc = "done"
    /\ rule.kind = "AtRoot"
    /\ atOut.kind = "ok"
    /\ rule.selector = <<>>
    /\ super_selector # <<>>
    /\ Cardinality(StylePlaces(bodies[1])) = 2
    /\ Cardinality(OtherPlaces(bodies[1])) = 1
    /\ Len(atOut.stmts) = 2
    /\ atOut.stmts[1].selector = super_selector

\* The error of the evaluation from_tokens performs next, "" when that
\* evaluation succeeds or the next step evaluates nothing.
ErrorOf(r) == IF r.ok THEN "" ELSE r.err

FailureAhead ==
    CASE atPc = "start" /\ rule.kind \in {"Error", "Warn", "Debug", "Each"} ->
            ErrorOf(from_vec(rule.expr, scope))
      [] atPc = "start" /\ rule.kind = "AtRoot" ->
            IF ~SelectorFromTokens(rule.selector).ok
            THEN SelectorFromTokens(rule.selector).err
            ELSE ErrorOf(eat_stmts_at_root(rule.body, scope,
                    AtRootSelector(super_selector,
                                   SelectorFromTokens(rule.selector).v)))
      [] atPc = "each_body" -> ErrorOf(eat_stmts(rule.body, scope, super_selector))
      [] atPc = "while" -> ErrorOf(from_vec(rule.expr, work))
      [] atPc = "while_body" -> ErrorOf(eat_stmts(rule.body, work, super_selector))
      [] OTHER -> ""

\* C11: from_tokens fails fast.  A step of @warn, @debug, @at-root, @each or
\* @while whose evaluation of an expression, a selector or a body fails ends
\* from_tokens with that error, no AtRule and no statements, whatever earlier
\* iterations accumulated; and @error always ends with an error, which carries
\* the string form of its message when the message evaluates.
C11_FailFast ==
    [][ /\ (FailureAhead # "" =>
                atPc' = "done" /\ atOut' = ErrRule(FailureAhead))
        /\ (atPc = "start" /\ rule.kind = "Error" =>
                /\ atPc' = "done"
                /\ atOut'.kind = "err"
                /\ atOut'.rule = "" /\ atOut'.stmts = <<>>
                /\ (from_vec(rule.expr, scope).ok =>
                        atOut'.msg = to_string(from_vec(rule.expr, scope).v)))
      ]_vars

\* An @each or @while failed after earlier iterations had accumulated
\* statements.
C11_Witness ==
    /\ atPc = "done"
    /\ atOut.kind = "err"
    /\ rule.kind = "Each"
    /\ stmts # <<>>
    /\ bodies # <<>>

(***************************************************************************)
(* SelectorList::unify and SelectorList::is_superselector.                 *)
(***************************************************************************)
IsType(simple) == simple.kind = "Type"

IsNotType(simple) == simple.kind # "Type"

HasSimple(simples, simple) == \E i \in 1..Len(simples) : simples[i] = simple

\* Two compounds merged into the one that matches what both match: a type
\* selector both name is kept once, differing type selectors have no
\* unifier, the other simple selectors are unioned.
unify_compound(simples1, simples2) ==
    LET type1 == SelectSeq(simples1, IsType)
        type2 == SelectSeq(simples2, IsType)
    IN  IF type1 # <<>> /\ type2 # <<>> /\ type1 # type2 THEN None
        ELSE Some((IF type1 # <<>> THEN type1 ELSE type2)
                  \o SelectSeq(simples1, IsNotType)
                  \o SelectSeq(simples2,
                        LAMBDA x : IsNotType(x) /\ ~HasSimple(simples1, x)))

\* unify_complex(vec![complex1, complex2]): the last compounds are merged and
\* what precedes them is sequenced.  A descendant prefix is absorbed by a
\* prefix that ends with a combinator; two prefixes that end with the same
\* combinator are unified in turn, with different combinators they abort the
\* pair; two descendant prefixes are taken in both orders.
RECURSIVE unify_complex(_, _)
unify_complex(complex1, complex2) ==
    IF \/ complex1 = <<>> \/ complex2 = <<>>
       \/ ~is_compound(Last(complex1)) \/ ~is_compound(Last(complex2))
    THEN None
    ELSE
    LET base == unify_compound(Last(complex1).simples, Last(complex2).simples)
        prefix1 == Front(complex1)
        prefix2 == Front(complex2)
        inner == unify_complex(Front(prefix1), Front(prefix2))
        woven ==
            CASE prefix1 = <<>> -> Some(<<prefix2>>)
              [] prefix2 = <<>> -> Some(<<prefix1>>)
              [] ~is_compound(Last(prefix1)) /\ ~is_compound(Last(prefix2)) ->
                    IF Last(prefix1) # Last(prefix2) \/ ~inner.some THEN None
                    ELSE Some([n \in 1..Len(inner.components) |->
                                Append(inner.components[n], Last(prefix1))])
              [] ~is_compound(Last(prefix1)) -> Some(<<prefix2 \o prefix1>>)
              [] ~is_compound(Last(prefix2)) -> Some(<<prefix1 \o prefix2>>)
              [] prefix1 = prefix2 -> Some(<<prefix1>>)
              [] OTHER -> Some(<<prefix1 \o prefix2, prefix2 \o prefix1>>)
    IN  IF ~base.some \/ ~woven.some THEN None
        ELSE Some([n \in 1..Len(woven.components) |->
                    Append(woven.components[n], Compound(base.components))])

\* The closure of unify's inner flat_map: the unifiers of one pair as complex
\* selectors, none when the pair has no unifier.
UnifiedPair(c1, c2) ==
    LET unified == unify_complex(c1.components, c2.components)
    IN  IF unified.some
        THEN [n \in 1..Len(unified.components) |->
                ComplexSelector(unified.components[n], FALSE)]
        ELSE <<>>

\* unify with the pairs taken `other` first.
unify_OtherMajor(self, other) ==
    LET contents ==
            Flat([j \in 1..Len(other) |->
                Flat([i \in 1..Len(self) |-> UnifiedPair(self[i], other[j])])])
    IN  IF contents = <<>> THEN None ELSE Some(contents)

\* SelectorList::unify
unify(self, other) ==
    LET contents ==
            Flat([i \in 1..Len(self) |->
                Flat([j \in 1..Len(other) |-> UnifiedPair(self[i], other[j])])])
    IN  IF contents = <<>> THEN None ELSE Some(contents)

\* The super's compound is a subset of the sub's compound.
CompoundIsSuper(compound1, compound2) ==
    \A i \in 1..Len(compound1.simples) :
        HasSimple(compound2.simples, compound1.simples[i])

\* The alignment of ComplexSelector::is_super_selector from the tail:
\* super[i] and sub[j] are the compounds to align next.  A combinator of the
\* super needs the same combinator in the sub; a descendant step of the super
\* takes the nearest earlier compound of the sub that it contains.
RECURSIVE AlignedFrom(_, _, _, _)
AlignedFrom(super, i, sub, j) ==
    IF ~CompoundIsSuper(super[i], sub[j]) THEN FALSE
    ELSE IF i = 1 THEN TRUE
    ELSE IF j = 1 THEN FALSE
    ELSE IF ~is_compound(super[i - 1])
    THEN /\ i >= 3 /\ j >= 3
         /\ sub[j - 1] = super[i - 1]
         /\ AlignedFrom(super, i - 2, sub, j - 2)
    ELSE LET candidates ==
                {k \in 1..(j - 1) :
                    is_compound(sub[k]) /\ CompoundIsSuper(super[i - 1], sub[k])}
         IN  /\ candidates # {}
             /\ AlignedFrom(super, i - 1, sub,
                    CHOOSE k \in candidates : \A l \in candidates : l <= k)

\* ComplexSelector::is_super_selector
is_super_selector(complex2, complex1) ==
    /\ complex2.components # <<>> /\ complex1.components # <<>>
    /\ is_compound(Last(complex2.components))
    /\ is_compound(Last(complex1.components))
    /\ AlignedFrom(complex2.components, Len(complex2.components),
                   complex1.components, Len(complex1.components))

\* is_superselector with `all` and `any` exchanged.
is_superselector_AnyAll(self, other) ==
    \E n \in 1..Len(other) :
        \A m \in 1..Len(self) : is_super_selector(self[m], other[n])

\* SelectorList::is_superselector
is_superselector(self, other) ==
    \A n \in 1..Len(other) :
        \E m \in 1..Len(self) : is_super_selector(self[m], other[n])

\* a | b.c | .c | .d .c | a .e | .e > .c (after a line break) | b + .c
UnifyComplexes ==
    { ComplexSelector(<<Compound(<<Type("a")>>)>>, FALSE),
      ComplexSelector(<<Compound(<<Type("b"), Class("c")>>)>>, FALSE),
      ComplexSelector(<<Compound(<<Class("c")>>)>>, FALSE),
      ComplexSelector(<<Compound(<<Class("d")>>), Compound(<<Class("c")>>)>>, FALSE),
      ComplexSelector(<<Compound(<<Type("a")>>), Compound(<<Class("e")>>)>>, FALSE),
      ComplexSelector(<<Compound(<<Class("e")>>), Combinator(">"),
                        Compound(<<Class("c")>>)>>, TRUE),
      ComplexSelector(<<Compound(<<Type("b")>>), Combinator("+"),
                        Compound(<<Class("c")>>)>>, FALSE) }

UnifyLists == SeqsUpTo(UnifyComplexes, MaxUnifyLen)

UniInit ==
    /\ SelIdle
    /\ AtIdle
    /\ DispIdle
    /\ FnIdle
    /\ RestIdle
    /\ uniSelf \in UnifyLists
    /\ uniOther \in UnifyLists
    /\ uniOut = None
    /\ supers = <<>>
    /\ uniPc = "start"

\* self.unify(other)
UnifyCall ==
    /\ UNCHANGED outsideUni
    /\ uniPc = "start"
    /\ uniOut' = unify(uniSelf, uniOther)
    /\ uniPc' = "unified"
    /\ UNCHANGED <<uniSelf, uniOther, supers>>

\* self.is_superselector(&unified) and other.is_superselector(&unified)
SuperselectorCall ==
    /\ UNCHANGED outsideUni
    /\ uniPc = "unified"
    /\ uniOut.some
    /\ supers' = <<is_superselector(uniSelf, uniOut.components),
                   is_superselector(uniOther, uniOut.components)>>
    /\ uniPc' = "compared"
    /\ UNCHANGED <<uniSelf, uniOther, uniOut>>

UniNext ==
    \/ UnifyCall
    \/ SuperselectorCall

SpecUnify == UniInit /\ [][UniNext]_vars

(***************************************************************************)
(* Properties of unify and is_superselector.                               *)
(***************************************************************************)
\* Pair number k of self x other, self-major.
SelfOf(k) == uniSelf[((k - 1) \div Len(uniOther)) + 1]

OtherOf(k) == uniOther[((k - 1) % Len(uniOther)) + 1]

HasUnifier(c1, c2) == unify_complex(c1.components, c2.components).some

UnifiersOf(c1, c2) ==
    IF HasUnifier(c1, c2) THEN unify_complex(c1.components, c2.components).components
    ELSE <<>>

\* C12: unify returns None exactly when no pair of a complex of self and a
\* complex of other has a unifier; otherwise it returns a non-empty list whose
\* complexes are the unifiers of every pair, concatenated with the pairs in
\* self-major, then other, order.
C12_UnifyConcatenatesPairs ==
    uniPc # "start" =>
        /\ ~uniOut.some <=>
                ~\E i \in 1..Len(uniSelf), j \in 1..Len(uniOther) :
                    HasUnifier(uniSelf[i], uniOther[j])
        /\ uniOut.some =>
                /\ uniOut.components # <<>>
                /\ [n \in 1..Len(uniOut.components) |-> uniOut.components[n].components]
                    = Flat([k \in 1..(Len(uniSelf) * Len(uniOther)) |->
                                UnifiersOf(SelfOf(k), OtherOf(k))])

\* Two lists of two complexes were unified: one pair had no unifier, another
\* had two, and pairs of different complexes of self had unifiers.
C12_Witness ==
    /\ uniPc = "unified"
    /\ Len(uniSelf) = 2 /\ Len(uniOther) = 2
    /\ uniOut.some
    /\ \E i, j \in 1..2 : ~HasUnifier(uniSelf[i], uniOther[j])
    /\ \E i, j \in 1..2 : Len(UnifiersOf(uniSelf[i], uniOther[j])) = 2
    /\ HasUnifier(uniSelf[1], uniOther[2])
    /\ HasUnifier(uniSelf[2], uniOther[1])
    /\ uniSelf[1] # uniSelf[2] /\ uniOther[1] # uniOther[2]

\* C13: when unify(A, B) returns Some(U), A is a superselector of U and B is
\* a superselector of U.
C13_UnifiedIsMatchedByBoth ==
    uniPc = "compared" => supers = <<TRUE, TRUE>>

\* The unification of two lists of two complexes, with a unifier that
\* sequences a descendant prefix before a combinator, was compared.
C13_Witness ==
    /\ uniPc = "compared"
    /\ Len(uniSelf) = 2 /\ Len(uniOther) = 2
    /\ uniSelf # uniOther
    /\ \E n \in 1..Len(uniOut.components) :
            Len(uniOut.components[n].components) = 4

(***************************************************************************)
(* impl fmt::Display for SelectorList.                                     *)
(***************************************************************************)
\* ComplexSelector::is_invisible: some compound holds a placeholder selector.
is_invisible(complex) ==
    \E i \in 1..Len(complex.components) :
        \E k \in 1..Len(complex.components[i].simples) :
            complex.components[i].simples[k].kind = "Placeholder"

IsVisible(complex) == ~is_invisible(complex)

\* Display of a simple selector and of a component.
SimpleString(simple) ==
    CASE simple.kind = "Class" -> "." \o simple.name
      [] simple.kind = "Placeholder" -> "%" \o simple.name
      [] simple.kind = "Parent" -> "&" \o simple.name
      [] OTHER -> simple.name

ComponentString(component) ==
    IF is_compound(component)
    THEN JoinFrom([k \in 1..Len(component.simples) |->
                    SimpleString(component.simples[k])], 1, "")
    ELSE component.combinator

\* `write!(f, "{}", complex)`: the components, a space between them.
ComplexString(complex) ==
    JoinFrom([i \in 1..Len(complex.components) |->
                ComponentString(complex.components[i])], 1, " ")

\* Separator with a space after every comma.
Separator_AlwaysSpace(complex) == <<",", " ">>

\* What is written between the previous complex and `complex`.
Separator(complex) == <<",", IF complex.line_break THEN "\n" ELSE " ">>

\* a | b (after a line break) | %p (after a line break) | c > d | %q .a
DisplayComplexes ==
    { ComplexSelector(<<Compound(<<Type("a")>>)>>, FALSE),
      ComplexSelector(<<Compound(<<Type("b")>>)>>, TRUE),
      ComplexSelector(<<Compound(<<Placeholder("p")>>)>>, TRUE),
      ComplexSelector(<<Compound(<<Type("c")>>), Combinator(">"),
                        Compound(<<Type("d")>>)>>, FALSE),
      ComplexSelector(<<Compound(<<Placeholder("q")>>),
                        Compound(<<Class("a")>>)>>, FALSE) }

DispInit ==
    /\ SelIdle
    /\ AtIdle
    /\ UniIdle
    /\ FnIdle
    /\ RestIdle
    /\ dispList \in SeqsUpTo(DisplayComplexes, MaxDisplayLen)
    /\ dispNext = 1
    /\ first = TRUE
    /\ written = <<>>
    /\ dispPc = "loop"

\* The filter of `complexes` drops an invisible complex.
SkipInvisible ==
    /\ UNCHANGED outsideDisp
    /\ dispPc = "loop"
    /\ dispNext <= Len(dispList)
    /\ is_invisible(dispList[dispNext])
    /\ dispNext' = dispNext + 1
    /\ UNCHANGED <<dispList, first, written, dispPc>>

\* One turn of `for complex in complexes`.
WriteComplex ==
    /\ UNCHANGED outsideDisp
    /\ dispPc = "loop"
    /\ dispNext <= Len(dispList)
    /\ ~is_invisible(dispList[dispNext])
    /\ first' = FALSE
    /\ written' = written
                    \o (IF first THEN <<>> ELSE Separator(dispList[dispNext]))
                    \o <<ComplexString(dispList[dispNext])>>
    /\ dispNext' = dispNext + 1
    /\ UNCHANGED <<dispList, dispPc>>

\* The loop is over: Ok(()).
DisplayReturn ==
    /\ UNCHANGED outsideDisp
    /\ dispPc = "loop"
    /\ dispNext > Len(dispList)
    /\ dispPc' = "done"
    /\ UNCHANGED <<dispList, dispNext, first, written>>

DispNext ==
    \/ SkipInvisible
    \/ WriteComplex
    \/ DisplayReturn

SpecDisplay == DispInit /\ [][DispNext]_vars

(***************************************************************************)
(* Properties of the serialization.                                        *)
(***************************************************************************)
VisibleComplexes == SelectSeq(dispList, IsVisible)

Abs(n) == IF n < 0 THEN 0 - n ELSE n

\* length with 0 for a value that is not a list.
length_SingleIsEmpty(args) ==
    Value(Num(CASE args.list.t = "list" -> Len(args.list.items)
                [] args.list.t = "map" -> Len(args.list.entries)
                [] OTHER -> 0))

\* length($list)
length(args) ==
    Value(Num(CASE args.list.t = "list" -> Len(args.list.items)
                [] args.list.t = "map" -> Len(args.list.entries)
                [] OTHER -> 1))

\* IndexCheck with the last and the minus-first position out of range.
IndexCheck_RangeInclusive(n, len) ==
    CASE n.t # "num" -> "$n: " \o to_string(n) \o " is not a number."
      [] n.n = 0 -> "$n: List index may not be 0."
      [] Abs(n.n) >= len * n.d ->
            "$n: Invalid index " \o NumberString(n.n, n.d)
            \o " for a list with " \o ToString(len) \o " elements."
      [] n.d # 1 -> "$n: " \o NumberString(n.n, n.d) \o " is not an int."
      [] OTHER -> ""

\* The checks nth and set-nth make on $n for a list of `len` elements: the
\* error they return, "" when $n passes.
IndexCheck(n, len) ==
    CASE n.t # "num" -> "$n: " \o to_string(n) \o " is not a number."
      [] n.n = 0 -> "$n: List index may not be 0."
      [] Abs(n.n) > len * n.d ->
            "$n: Invalid index " \o NumberString(n.n, n.d)
            \o " for a list with " \o ToString(len) \o " elements."
      [] n.d # 1 -> "$n: " \o NumberString(n.n, n.d) \o " is not an int."
      [] OTHER -> ""

\* Position with a negative $n counted from the second-to-last element.
Position_Shifted(n, len) ==
    IF n.n > 0 THEN n.n ELSE IF Abs(n.n) = len THEN 1 ELSE len - Abs(n.n)

\* The element a checked $n names, counted from 1: `n - 1` from the front
\* for a positive $n, `len - |n|` from the front for a negative one.
Position(n, len) ==
    IF n.n > 0 THEN n.n ELSE len - Abs(n.n) + 1

\* nth($list, $n)
nth(args) ==
    LET list == AsRows(args.list)
    IN  IF IndexCheck(args.n, Len(list)) # ""
        THEN Failure(IndexCheck(args.n, Len(list)))
        ELSE Value(list[Position(args.n, Len(list))])

\* list-separator($list)
list_separator(args) ==
    Value(Str(IF args.list.t = "list" THEN args.list.sep ELSE "space"))

\* set-nth($list, $n, $value)
set_nth(args) ==
    LET list == AsRows(args.list)
        sep == CASE args.list.t = "list" -> args.list.sep
                 [] args.list.t = "map" -> "comma"
                 [] OTHER -> "space"
        brackets == IF args.list.t = "list" THEN args.list.br ELSE "none"
    IN  IF IndexCheck(args.n, Len(list)) # ""
        THEN Failure(IndexCheck(args.n, Len(list)))
        ELSE Value(List([list EXCEPT ![Position(args.n, Len(list))] = args.value],
                        sep, brackets))

\* The match of append and join on $separator: the separator named, "auto"
\* standing for `inferred`.
SeparatorArg(separator, inferred) ==
    CASE separator.t # "str" ->
            Failure("$separator: " \o to_string(separator) \o " is not a string.")
      [] separator.s = "auto" -> Value(inferred)
      [] separator.s = "comma" -> Value("comma")
      [] separator.s = "space" -> Value("space")
      [] OTHER -> Failure("$separator: Must be \"space\", \"comma\", or \"auto\".")

\* append($list, $val, $separator: auto)
append(args) ==
    LET list == IF args.list.t = "list" THEN args.list.items ELSE <<args.list>>
        sep == SeparatorArg(args.separator,
                    IF args.list.t = "list" THEN args.list.sep ELSE "space")
        brackets == IF args.list.t = "list" THEN args.list.br ELSE "none"
    IN  IF ~sep.ok THEN sep
        ELSE Value(List(Append(list, args.val), sep.v, brackets))

\* JoinBrackets with the brackets of $list2 when $list1 is empty.
JoinBrackets_OfNonEmpty(list1, list2) ==
    CASE list1.t # "list" -> "none"
      [] list1.items = <<>> /\ list2.t = "list" -> list2.br
      [] OTHER -> list1.br

\* `brackets` of join: those of $list1; $list2 gives its elements and its
\* separator only.
JoinBrackets(list1, list2) ==
    IF list1.t = "list" THEN list1.br ELSE "none"

\* join($list1, $list2, $separator: auto, $bracketed: auto)
join(args) ==
    LET list1 == IF args.list1.t = "list" THEN args.list1.items ELSE <<args.list1>>
        sep1 == IF args.list1.t = "list" THEN args.list1.sep ELSE "space"
        brackets1 == JoinBrackets(args.list1, args.list2)
        list2 == IF args.list2.t = "list" THEN args.list2.items ELSE <<args.list2>>
        sep2 == IF args.list2.t = "list" THEN args.list2.sep ELSE "space"
        sep == SeparatorArg(args.separator,
                    IF Len(list1) < 2 /\ Len(list2) < 2 THEN "space"
                    ELSE IF list1 = <<>> THEN sep2
                    ELSE sep1)
        brackets ==
            CASE args.bracketed.t = "str" /\ args.bracketed.s = "auto" -> brackets1
              [] args.bracketed.t = "str" -> "bracketed"
              [] is_true(args.bracketed) -> "bracketed"
              [] OTHER -> "none"
    IN  IF ~sep.ok THEN sep
        ELSE Value(List(list1 \o list2, sep.v, brackets))

\* is-bracketed($list)
is_bracketed(args) ==
    Value(IF args.list.t = "list" /\ args.list.br = "bracketed" THEN True ELSE False)

\* index($list, $value)
index(args) ==
    LET list == IF args.list.t = "list" THEN args.list.items ELSE <<args.list>>
        found == {k \in 1..Len(list) : list[k] = args.value}
    IN  IF found = {} THEN Value(Null)
        ELSE Value(Num(CHOOSE k \in found : \A l \in found : k <= l))

\* register: the built-in a name is bound to.
Builtin(name, args) ==
    CASE name = "length" -> length(args)
      [] name = "nth" -> nth(args)
      [] name = "list-separator" -> list_separator(args)
      [] name = "set-nth" -> set_nth(args)
      [] name = "append" -> append(args)
      [] name = "join" -> join(args)
      [] name = "is-bracketed" -> is_bracketed(args)
      [] OTHER -> index(args)

BuiltinNames ==
    {"length", "nth", "list-separator", "set-nth", "append", "join",
     "is-bracketed", "index"}

\* The values handed to the built-ins.
\* lists over 1 and a, either separator, bracketed or not
FnLists ==
    {List(items, sep, br) :
        items \in SeqsUpTo({Num(1), Str("a")}, MaxItems),
        sep \in {"space", "comma"}, br \in {"none", "bracketed"}}

\* () | (a: 1) | (a: 1, 1: 2)
FnMaps ==
    { Map(<<>>), Map(<<<<Str("a"), Num(1)>>>>),
      Map(<<<<Str("a"), Num(1)>>, <<Num(1), Num(2)>>>>) }

\* 2 | b | null
FnSingles == {Num(2), Str("b"), Null}

FnListArgs == FnLists \cup FnMaps \cup FnSingles

\* whole numbers around the lengths, 0.5, -1.5, a, null
FnIndexes ==
    {Num(k) : k \in (0 - MaxItems - 1)..(MaxItems + 1)}
    \cup {Ratio(1, 2), Ratio(0 - 3, 2), Str("a"), Null}

\* 1 | a | 2 | b | null | 9 | a 1 | 1 2
FnValues ==
    { Num(1), Str("a"), Num(2), Str("b"), Null, Num(9),
      List(<<Str("a"), Num(1)>>, "space", "none"),
      List(<<Num(1), Num(2)>>, "space", "none") }

\* auto | comma | space | tab | 1
FnSeparators == {Str("auto"), Str("comma"), Str("space"), Str("tab"), Num(1)}

\* auto | yes | null | true
FnBracketed == {Str("auto"), Str("yes"), Null, True}

Arguments(name) ==
    CASE name \in {"length", "list-separator", "is-bracketed"} ->
            {[list |-> x] : x \in FnListArgs}
      [] name = "nth" -> {[list |-> x, n |-> n] : x \in FnListArgs, n \in FnIndexes}
      [] name = "set-nth" ->
            {[list |-> x, n |-> n, value |-> v] :
                x \in FnListArgs, n \in FnIndexes, v \in FnValues}
      [] name = "append" ->
            {[list |-> x, val |-> v, separator |-> sp] :
                x \in FnListArgs, v \in FnValues, sp \in FnSeparators}
      [] name = "join" ->
            {[list1 |-> x, list2 |-> y, separator |-> sp, bracketed |-> b] :
                x \in FnListArgs, y \in FnListArgs,
                sp \in FnSeparators \ {Num(1)}, b \in FnBracketed}
      [] OTHER -> {[list |-> x, value |-> v] : x \in FnListArgs, v \in FnValues}

FnInit ==
    /\ SelIdle
    /\ AtIdle
    /\ UniIdle
    /\ DispIdle
    /\ RestIdle
    /\ fnName \in BuiltinNames
    /\ fnArgs \in Arguments(fnName)
    /\ fnOut = <<>>
    /\ fnPc = "call"

CallLength ==
    /\ UNCHANGED outsideFn
    /\ fnPc = "call" /\ fnName = "length"
    /\ fnOut' = length(fnArgs)
    /\ fnPc' = "done"
    /\ UNCHANGED <<fnName, fnArgs>>

CallNth ==
    /\ UNCHANGED outsideFn
    /\ fnPc = "call" /\ fnName = "nth"
    /\ fnOut' = nth(fnArgs)
    /\ fnPc' = "done"
    /\ UNCHANGED <<fnName, fnArgs>>

CallListSeparator ==
    /\ UNCHANGED outsideFn
    /\ fnPc = "call" /\ fnName = "list-separator"
    /\ fnOut' = list_separator(fnArgs)
    /\ fnPc' = "done"
    /\ UNCHANGED <<fnName, fnArgs>>

CallSetNth ==
    /\ UNCHANGED outsideFn
    /\ fnPc = "call" /\ fnName = "set-nth"
    /\ fnOut' = set_nth(fnArgs)
    /\ fnPc' = "done"
    /\ UNCHANGED <<fnName, fnArgs>>

CallAppend ==
    /\ UNCHANGED outsideFn
    /\ fnPc = "call" /\ fnName = "append"
    /\ fnOut' = append(fnArgs)
    /\ fnPc' = "done"
    /\ UNCHANGED <<fnName, fnArgs>>

CallJoin ==
    /\ UNCHANGED outsideFn
    /\ fnPc = "call" /\ fnName = "join"
    /\ fnOut' = join(fnArgs)
    /\ fnPc' = "done"
    /\ UNCHANGED <<fnName, fnArgs>>

CallIsBracketed ==
    /\ UNCHANGED outsideFn
    /\ fnPc = "call" /\ fnName = "is-bracketed"
    /\ fnOut' = is_bracketed(fnArgs)
    /\ fnPc' = "done"
    /\ UNCHANGED <<fnName, fnArgs>>

CallIndex ==
    /\ UNCHANGED outsideFn
    /\ fnPc = "call" /\ fnName = "index"
    /\ fnOut' = index(fnArgs)
    /\ fnPc' = "done"
    /\ UNCHANGED <<fnName, fnArgs>>

FnNext ==
    \/ CallLength
    \/ CallNth
    \/ CallListSeparator
    \/ CallSetNth
    \/ CallAppend
    \/ CallJoin
    \/ CallIsBracketed
    \/ CallIndex

SpecFn == FnInit /\ [][FnNext]_vars

(***************************************************************************)
(* Properties of the list built-ins.                                       *)
(***************************************************************************)
\* length($list) as a number.
LengthOf(x) == length([list |-> x]).v.n

IsWhole(n) == n.t = "num" /\ n.d = 1

\* C15: for every X and every whole i with 1 <= i <= length(X), nth(X, i)
\* succeeds and returns what nth(X, i - length(X) - 1) returns.
C15_NegativeMirrorsPositive ==
    (/\ fnPc = "done" /\ fnName = "nth"
     /\ IsWhole(fnArgs.n)
     /\ 1 <= fnArgs.n.n /\ fnArgs.n.n <= LengthOf(fnArgs.list))
    => /\ fnOut.ok
       /\ fnOut = nth([fnArgs EXCEPT
                        !.n = Num(fnArgs.n.n - LengthOf(fnArgs.list) - 1)])

\* nth returned the second of two different elements.
C15_Witness ==
    /\ fnPc = "done" /\ fnName = "nth"
    /\ fnArgs.list = List(<<Num(1), Str("a")>>, "comma", "none")
    /\ fnArgs.n = Num(2)
    /\ fnOut = Value(Str("a"))

\* C16: nth and set-nth return an error when $n is 0, when |$n| exceeds the
\* number of elements and when $n is not whole; they succeed for every whole
\* $n with 1 <= |$n| <= length; and a $n that is no number is rejected with
\* "$n: <value> is not a number.".
C16_IndexValidation ==
    (fnPc = "done" /\ fnName \in {"nth", "set-nth"}) =>
        LET n == fnArgs.n
            len == LengthOf(fnArgs.list)
        IN  IF n.t # "num"
            THEN fnOut = Failure("$n: " \o to_string(n) \o " is not a number.")
            ELSE IF n.n = 0 \/ Abs(n.n) > len * n.d \/ n.d # 1
            THEN ~fnOut.ok /\ fnOut.err # ""
            ELSE fnOut.ok

\* set-nth replaced the last element of a two-element list through $n = -1.
C16_Witness ==
    /\ fnPc = "done" /\ fnName = "set-nth"
    /\ fnArgs.list = List(<<Num(1), Str("a")>>, "space", "bracketed")
    /\ fnArgs.n = Num(0 - 1)
    /\ fnArgs.value = Num(9)
    /\ fnOut = Value(List(<<Num(1), Num(9)>>, "space", "bracketed"))

\* C17: for any X (list, map or single value) and any v, an append(X, v)
\* that succeeds returns a value one longer than X:
\* length(X) = length(append(X, v)) - 1.
C17_AppendAddsOne ==
    (fnPc = "done" /\ fnName = "append" /\ fnOut.ok) =>
        LengthOf(fnArgs.list) = LengthOf(fnOut.v) - 1

\* The empty list `()`.
EmptyList == List(<<>>, "space", "none")

JoinOfLists ==
    /\ fnPc = "done" /\ fnName = "join"
    /\ fnArgs.separator = Str("auto") /\ fnArgs.bracketed = Str("auto")
    /\ fnArgs.list1.t = "list" /\ fnArgs.list2.t = "list"

\* C18 as claimed: join(X, ()) has the elements and the brackets of X, and
\* join((), Y) has the elements and the brackets of Y.
C18_JoinEmptyIsIdentity ==
    JoinOfLists =>
        /\ fnArgs.list2 = EmptyList =>
                /\ fnOut.ok
                /\ fnOut.v.items = fnArgs.list1.items
                /\ fnOut.v.br = fnArgs.list1.br
        /\ fnArgs.list1 = EmptyList =>
                /\ fnOut.ok
                /\ fnOut.v.items = fnArgs.list2.items
                /\ fnOut.v.br = fnArgs.list2.br

\* C18: join(X, ()) has the elements and the brackets of X; join((), Y) has
\* the elements of Y and the brackets of its first argument (), so it is
\* unbracketed whatever the brackets of Y.
C18_JoinEmptyKeepsElements ==
    JoinOfLists =>
        /\ fnArgs.list2 = EmptyList =>
                /\ fnOut.ok
                /\ fnOut.v.items = fnArgs.list1.items
                /\ fnOut.v.br = fnArgs.list1.br
        /\ fnArgs.list1 = EmptyList =>
                /\ fnOut.ok
                /\ fnOut.v.items = fnArgs.list2.items
                /\ fnOut.v.br = "none"

\* () was joined with a bracketed list of two elements.
C18_Witness ==
    /\ JoinOfLists
    /\ fnArgs.list1 = EmptyList
    /\ fnArgs.list2 = List(<<Str("a"), Num(1)>>, "comma", "bracketed")
    /\ fnOut.ok
    /\ fnOut.v.items = <<Str("a"), Num(1)>>

\* The element nth(x, i) returns.
NthOf(x, i) == nth([list |-> x, n |-> Num(i)]).v

\* C19: for every X that nth accepts whose elements are pairwise distinct
\* and every i with 1 <= i <= length(X), index(X, nth(X, i)) = i; and index
\* returns null only when no element of X equals the value.
C19_IndexInvertsNth ==
    (fnPc = "done" /\ fnName = "index") =>
        LET x == fnArgs.list
            places == 1..LengthOf(x)
        IN  /\ (\A i, k \in places : i # k => NthOf(x, i) # NthOf(x, k)) =>
                    \A i \in places :
                        NthOf(x, i) = fnArgs.value => fnOut = Value(Num(i))
            /\ fnOut = Value(Null) =>
                    \A i \in places : NthOf(x, i) # fnArgs.value

\* The arguments of a built-in that are consumed as lists.
ListParams(name) == IF name = "join" THEN {"list1", "list2"} ELSE {"list"}

IsSingle(v) == v.t \notin {"list", "map"}

\* C20: for a value v that is neither a list nor a map, every list built-in
\* returns for v what it returns for the one-element, space-separated,
\* unbracketed list of v.
C20_SingleValueIsOneElementList ==
    fnPc = "done" =>
        \A p \in ListParams(fnName) :
            IsSingle(fnArgs[p]) =>
                fnOut = Builtin(fnName,
                            [fnArgs EXCEPT ![p] = List(<<@>>, "space", "none")])

\* join was called with two single values.
C20_Witness ==
    /\ fnPc = "done" /\ fnName = "join"
    /\ IsSingle(fnArgs.list1) /\ IsSingle(fnArgs.list2)
    /\ fnOut.ok
    /\ Len(fnOut.v.items) = 2

\* A map as the list of its entries: two-element space-separated unbracketed
\* lists (key value), in insertion order.
ListOfEntries(m) == List(AsRows(m), "comma", "none")

\* C21: a list built-in that consumes a map as a list (length, nth, set-nth,
\* append, join, index) returns for the map what it returns for the list of
\* the map's entries.
C21_MapIsListOfEntries ==
    (fnPc = "done" /\ fnName \notin {"list-separator", "is-bracketed"}) =>
        \A p \in ListParams(fnName) :
            fnArgs[p].t = "map" =>
                fnOut = Builtin(fnName, [fnArgs EXCEPT ![p] = ListOfEntries(@)])

(***************************************************************************)
(* value.rs: impl Add for Value and Value::from_tokens.                    *)
(***************************************************************************)
\* Value::Dimension(Dimension { val }, unit) of value.rs; "none" is Unit::None.
Dimension(val, unit) == [t |-> "dimension", val |-> val, unit |-> unit]
Important == [t |-> "important"]
\* Value::Ident(s, QuoteKind::None)
Unquoted(s) == [t |-> "ident", s |-> s, quote |-> "none"]
BinaryOp(lhs, op, rhs) == [t |-> "binop", lhs |-> lhs, op |-> op, rhs |-> rhs]
Paren(val) == [t |-> "paren", val |-> val]

\* What a call of value.rs comes to: a value, or a panic of the thread.
Returned(v) == [kind |-> "value", v |-> v]
Panicked(msg) == [kind |-> "panic", v |-> msg]

\* impl Add for Dimension: `self.val + other.val` on u64.  Past the largest
\* value the addition panics in a build with overflow checks and wraps in one
\* without; both outcomes are kept.
DimensionAdd(val, val2) ==
    IF val + val2 <= MaxVal THEN {Returned(val + val2)}
    ELSE {Panicked("attempt to add with overflow"),
          Returned((val + val2) % (MaxVal + 1))}

\* impl Add for Value: the outcomes of `self + other`.
Add(self, other) ==
    IF self.t = "dimension" /\ other.t = "dimension"
    THEN {IF r.kind = "value" THEN Returned(Dimension(r.v, self.unit)) ELSE r :
            r \in DimensionAdd(self.val, other.val)}
    ELSE {Panicked("not yet implemented")}

\* TokenKind
Number(string) == [k |-> "Number", s |-> string]
Ident(string) == [k |-> "Ident", s |-> string]
Symbol(c) == [k |-> "Symbol", s |-> c]
Whitespace(c) == [k |-> "Whitespace", s |-> c]
Keyword(word) == [k |-> "Keyword", s |-> word]

\* What from_tokens comes to: Some(value) or None, with the index of the
\* next token of `toks`, or a panic.
SomeValue(v, next) == [kind |-> "some", v |-> v, next |-> next]
NoValue(next) == [kind |-> "none", v |-> Null, next |-> next]
Unwound(msg) == [kind |-> "panic", v |-> msg, next |-> 0]

\* devour_whitespace_or_comment: the first index from i on that holds no
\* whitespace.
RECURSIVE devour_whitespace_or_comment(_, _)
devour_whitespace_or_comment(toks, i) ==
    IF i <= Len(toks) /\ toks[i].k = "Whitespace"
    THEN devour_whitespace_or_comment(toks, i + 1)
    ELSE i

\* `val.parse().unwrap()`: the u64 a string of digits writes, -1 when the
\* string writes none (the unwrap panics).
ParseU64(string) ==
    IF \E n \in 0..MaxVal : ToString(n) = string
    THEN CHOOSE n \in 0..MaxVal : ToString(n) = string
    ELSE 0 - 1

\* `while let Some(tok) = toks.peek()` of the Ident arm: the identifiers that
\* follow are pushed onto `s`.
RECURSIVE IdentRun(_, _, _)
IdentRun(toks, i, s) ==
    IF i <= Len(toks) /\ toks[i].k = "Ident"
    THEN IdentRun(toks, i + 1, s \o toks[i].s)
    ELSE SomeValue(Unquoted(s), i)

IsOperator(tok) == tok.k = "Symbol" /\ tok.s \in {"+", "-", "*", "/", "%"}

\* Value::from_tokens and Value::_from_tokens, reading `toks` from index i.
RECURSIVE from_tokens(_, _), inner_from_tokens(_, _)
inner_from_tokens(toks, i) ==
    IF i > Len(toks) THEN NoValue(i)
    ELSE
    CASE toks[i].k = "Number" ->
            LET unit == IF i + 1 > Len(toks) THEN "none"
                        ELSE IF toks[i + 1].k = "Ident" THEN toks[i + 1].s
                        ELSE IF toks[i + 1] = Symbol("%") THEN "%"
                        ELSE "none"
            IN  IF ParseU64(toks[i].s) < 0
                THEN Unwound("called Result::unwrap() on an Err value")
                ELSE SomeValue(Dimension(ParseU64(toks[i].s), unit),
                               IF unit = "none" THEN i + 1 ELSE i + 2)
      [] toks[i] = Symbol("(") ->
            LET val == from_tokens(toks, devour_whitespace_or_comment(toks, i + 1))
            IN  CASE val.kind # "some" -> val
                  [] val.next > Len(toks) ->
                        Unwound("called Option::unwrap() on a None value")
                  [] toks[val.next] # Symbol(")") -> Unwound("assertion failed")
                  [] OTHER -> SomeValue(Paren(val.v), val.next + 1)
      [] toks[i].k = "Ident" -> IdentRun(toks, i + 1, toks[i].s)
      [] toks[i] = Keyword("important") -> SomeValue(Important, i + 1)
      [] OTHER -> NoValue(i + 1)

from_tokens(toks, i) ==
    LET left == inner_from_tokens(toks, i)
        at == devour_whitespace_or_comment(toks, left.next)
        whitespace == at > left.next
        \* the right-hand side read after an operator or a comma
        after == from_tokens(toks, devour_whitespace_or_comment(toks, at + 1))
        \* the right-hand side read after whitespace alone
        beside == from_tokens(toks, at)
    IN  CASE left.kind # "some" -> left
          [] at > Len(toks) -> SomeValue(left.v, at)
          [] toks[at] = Symbol(";") -> SomeValue(left.v, at)
          [] toks[at] = Symbol(",") ->
                CASE after.kind = "panic" -> after
                  [] after.kind = "none" -> SomeValue(left.v, after.next)
                  [] OTHER -> SomeValue(List(<<left.v, after.v>>, "comma", "none"),
                                        after.next)
          [] toks[at] = Symbol(")") -> SomeValue(left.v, at)
          [] IsOperator(toks[at]) ->
                CASE after.kind = "panic" -> after
                  [] after.kind = "none" -> SomeValue(left.v, after.next)
                  [] OTHER -> SomeValue(BinaryOp(left.v, toks[at].s, after.v),
                                        after.next)
          [] whitespace ->
                CASE beside.kind = "panic" -> beside
                  [] beside.kind = "none" -> SomeValue(left.v, beside.next)
                  [] OTHER -> SomeValue(List(<<left.v, beside.v>>, "space", "none"),
                                        beside.next)
          [] OTHER -> Unwound("not yet implemented: unimplemented token in value")

\* The operands `+` is applied to.
Units == {"none", "px", "%"}
Dimensions == {Dimension(val, unit) : val \in 0..MaxVal, unit \in Units}
AddOperands == Dimensions \cup {Important, Unquoted("a")}

\* The operands of a token stream with the value each is read as: 1, 2px, a
\* and (b).
Operands ==
    { [toks |-> <<Number("1")>>, v |-> Dimension(1, "none")],
      [toks |-> <<Number("2"), Ident("px")>>, v |-> Dimension(2, "px")],
      [toks |-> <<Ident("a")>>, v |-> Unquoted("a")],
      [toks |-> <<Symbol("("), Ident("b"), Symbol(")")>>,
       v |-> Paren(Unquoted("b"))] }
Operators == {"+", "-", "*", "/", "%"}

\* operand (operator operand)*, with a space around every operator when
\* `spaced`.
RECURSIVE Expression(_, _, _, _)
Expression(operands, ops, spaced, k) ==
    IF k > Len(operands) THEN <<>>
    ELSE (IF k = 1 THEN <<>>
          ELSE IF spaced
               THEN <<Whitespace(" "), Symbol(ops[k - 1]), Whitespace(" ")>>
               ELSE <<Symbol(ops[k - 1])>>)
         \o operands[k].toks \o Expression(operands, ops, spaced, k + 1)

Expressions ==
    { [operands |-> operands, ops |-> ops, spaced |-> spaced,
       toks |-> Expression(operands, ops, spaced, 1)] :
        <<operands, ops>> \in
            UNION {[1..n -> Operands] \X [1..(n - 1) -> Operators] :
                       n \in 1..MaxOperands},
        spaced \in BOOLEAN }

\* Token streams that reach the other arms: `a b;`, `a, b`, `a,`, `!important`,
\* `( a`, `(a;`, `;`, the empty stream and `9`, a number past the largest
\* value.
OtherStreams ==
    { <<Ident("a"), Whitespace(" "), Ident("b"), Symbol(";")>>,
      <<Ident("a"), Symbol(","), Whitespace(" "), Ident("b")>>,
      <<Ident("a"), Symbol(",")>>,
      <<Keyword("important")>>,
      <<Symbol("("), Whitespace(" "), Ident("a")>>,
      <<Symbol("("), Ident("a"), Symbol(";")>>,
      <<Symbol(";")>>,
      <<Number("9")>>,
      <<>> }

ValInit ==
    /\ \/ /\ valOp = "add"
          /\ valArgs \in [left : AddOperands, right : AddOperands]
       \/ /\ valOp = "from_tokens"
          /\ valArgs \in Expressions
                 \cup {[operands |-> <<>>, ops |-> <<>>, spaced |-> FALSE,
                        toks |-> toks] : toks \in OtherStreams}
    /\ valOut = <<>>
    /\ valPc = "idle"
    /\ SelIdle /\ AtIdle /\ UniIdle /\ DispIdle /\ FnIdle /\ LexIdle /\ CssIdle

\* `left + right`
CallAdd ==
    /\ valPc = "idle" /\ valOp = "add"
    /\ valOut' \in Add(valArgs.left, valArgs.right)
    /\ valPc' = "done"
    /\ UNCHANGED <<valOp, valArgs>>
    /\ UNCHANGED outsideVal

\* Value::from_tokens(&mut toks, scope)
CallFromTokens ==
    /\ valPc = "idle" /\ valOp = "from_tokens"
    /\ valOut' = from_tokens(valArgs.toks, 1)
    /\ valPc' = "done"
    /\ UNCHANGED <<valOp, valArgs>>
    /\ UNCHANGED outsideVal

ValNext == CallAdd \/ CallFromTokens
SpecValue == ValInit /\ [][ValNext]_vars

Added == valPc = "done" /\ valOp = "add"
    /\ valArgs.left.t = "dimension" /\ valArgs.right.t = "dimension"

\* C22: adding two dimensions respects units: with equal units the result is
\* the exact sum with that unit; when one operand has no unit the result is the
\* exact sum with the unit of the other; a % operand and an operand of another
\* unit give no value.
C22_AddRespectsUnits ==
    Added =>
        LET l == valArgs.left
            r == valArgs.right
        IN  /\ l.unit = r.unit =>
                valOut = Returned(Dimension(l.val + r.val, l.unit))
            /\ l.unit = "none" =>
                valOut = Returned(Dimension(l.val + r.val, r.unit))
            /\ r.unit = "none" =>
                valOut = Returned(Dimension(l.val + r.val, l.unit))
            /\ (l.unit = "%") # (r.unit = "%") /\ "none" \notin {l.unit, r.unit}
                   => valOut.kind # "value"

Parsed3 == valPc = "done" /\ valOp = "from_tokens" /\ Len(valArgs.operands) = 3

\* C23: from_tokens honours precedence: in `a o1 b o2 c` with o1 one of * / %
\* and o2 one of + -, the value is BinaryOp(BinaryOp(a, o1, b), o2, c); with
\* o1 one of + - and o2 one of * / %, it is BinaryOp(a, o1, BinaryOp(b, o2, c)).
C23_Precedence ==
    Parsed3 =>
        LET a == valArgs.operands[1].v
            b == valArgs.operands[2].v
            c == valArgs.operands[3].v
            o1 == valArgs.ops[1]
            o2 == valArgs.ops[2]
        IN  /\ o1 \in {"*", "/", "%"} /\ o2 \in {"+", "-"} =>
                /\ valOut.kind = "some"
                /\ valOut.v = BinaryOp(BinaryOp(a, o1, b), o2, c)
            /\ o1 \in {"+", "-"} /\ o2 \in {"*", "/", "%"} =>
                /\ valOut.kind = "some"
                /\ valOut.v = BinaryOp(a, o1, BinaryOp(b, o2, c))

(***************************************************************************)
(* lexer.rs: impl Iterator for Lexer.                                      *)
(***************************************************************************)
\* The characters of the inputs; every other character of next's match
\* falls in one of their arms.
Letters == {"a", "i"}
Digits == {"1"}
Symbols == {"*"}

\* fn is_whitespace
is_whitespace(c) == c \in {" ", "\n", "\r"}

\* The string of a sequence of characters.
RECURSIVE Collect(_)
Collect(chars) == IF chars = <<>> THEN "" ELSE Head(chars) \o Collect(Tail(chars))

\* The characters consumed by `while let Some(c) = self.buf.peek()` with a
\* break on the first character outside `set`.
RECURSIVE Run(_, _)
Run(chars, set) ==
    IF chars # <<>> /\ Head(chars) \in set THEN 1 + Run(Tail(chars), set) ELSE 0

Drop(chars, n) == SubSeq(chars, n + 1, Len(chars))

\* TokenKind::Variable(string), TokenKind::Unit(unit) and
\* TokenKind::Selector(Selector::Attribute(..))
Variable(string) == [k |-> "Variable", s |-> string]
UnitToken(unit) == [k |-> "Unit", s |-> unit]
Attribute(kind, attr, value, case_sensitive) ==
    [k |-> "Selector", s |-> attr, kind |-> kind, value |-> value,
     case_sensitive |-> case_sensitive]

\* What a call of next comes to: Some(token) with the buffer left, None, a
\* panic, or no return at all.
Lexed(tok, rest) == [kind |-> "token", tok |-> tok, rest |-> rest]
Ended(rest) == [kind |-> "none", tok |-> Null, rest |-> rest]
Aborted(rest) == [kind |-> "panic", tok |-> Null, rest |-> rest]
Spinning(rest) == [kind |-> "hang", tok |-> Null, rest |-> rest]

\* Lexer::devour_whitespace peeks and never consumes: TRUE when the loop
\* never ends.
devour_whitespace(chars) == chars # <<>> /\ is_whitespace(Head(chars))

\* Lexer::lex_ident; no string over Letters and Digits is a keyword or a unit.
lex_ident(chars) ==
    LET n == Run(chars, Letters \cup Digits \cup {"-"})
    IN  Lexed(Ident(Collect(SubSeq(chars, 1, n))), Drop(chars, n))

\* Lexer::lex_num
lex_num(chars) ==
    LET n == Run(chars, Digits \cup {"."})
    IN  Lexed(Number(Collect(SubSeq(chars, 1, n))), Drop(chars, n))

\* Lexer::lex_variable: the `$` itself is still in the buffer when the loop
\* peeks.
lex_variable(chars) ==
    LET n == Run(chars, Letters \cup {"-"})
    IN  Lexed(Variable(Collect(SubSeq(chars, 1, n))), Drop(chars, n))

\* Lexer::lex_at_rule: the `@` itself is still in the buffer when the loop
\* peeks; the empty string is no unit.
lex_at_rule(chars) ==
    LET n == Run(chars, Letters \cup {"-"})
    IN  IF n = 0 THEN Aborted(chars)
        ELSE Lexed(UnitToken(Collect(SubSeq(chars, 1, n))), Drop(chars, n))

\* The `while let Some(tok) = self.buf.next()` of a block comment: the buffer
\* left when the loop ends.
RECURSIVE BlockComment(_)
BlockComment(chars) ==
    IF chars = <<>> THEN <<>>
    ELSE IF Head(chars) = "*"
         THEN IF Len(chars) >= 2 /\ chars[2] = "/"
              THEN Drop(chars, 2)
              ELSE BlockComment(Drop(chars, 2))
         ELSE BlockComment(Tail(chars))

\* Lexer::lex_forward_slash
lex_forward_slash(chars) ==
    LET rest == Tail(chars)
    IN  CASE rest = <<>> -> Aborted(rest)
          [] Head(rest) = "/" -> Lexed(Whitespace("\n"), <<>>)
          [] Head(rest) = "*" -> Lexed(Whitespace("\n"), BlockComment(rest))
          [] OTHER -> Lexed(Symbol("/"), rest)

\* The value loop of lex_attr.
RECURSIVE AttrValue(_, _, _)
AttrValue(chars, value, case_sensitive) ==
    IF chars = <<>> \/ Head(chars) \notin Letters \cup {"-"}
    THEN [kind |-> "ok", value |-> value, case_sensitive |-> case_sensitive,
          rest |-> chars]
    ELSE IF Head(chars) = "i"
    THEN LET rest == Tail(chars)
         IN  CASE devour_whitespace(rest) -> Spinning(rest)
               [] rest = <<>> -> Aborted(rest)
               [] Head(rest) = "]" -> AttrValue(Tail(rest), value, FALSE)
               [] OTHER -> AttrValue(Tail(rest), value \o "i" \o Head(rest),
                                     case_sensitive)
    ELSE AttrValue(Tail(chars), value \o Head(chars), case_sensitive)

SkipQuote(chars) == IF Head(chars) \in {"'", "\""} THEN Tail(chars) ELSE chars

\* Lexer::lex_attr, from the kind of the attribute on.
AttrAfterKind(kind, attr, chars) ==
    LET eq == IF kind = "=" THEN chars ELSE Tail(chars)
        loop == AttrValue(SkipQuote(eq), "", TRUE)
    IN  CASE kind # "=" /\ (chars = <<>> \/ Head(chars) # "=") -> Aborted(chars)
          [] devour_whitespace(eq) -> Spinning(eq)
          [] eq = <<>> -> Aborted(eq)
          [] loop.kind # "ok" -> loop
          [] loop.rest = <<>> -> Aborted(loop.rest)
          [] devour_whitespace(SkipQuote(loop.rest)) -> Spinning(loop.rest)
          [] SkipQuote(loop.rest) = <<>> -> Aborted(<<>>)
          [] Head(SkipQuote(loop.rest)) # "]" -> Aborted(Tail(SkipQuote(loop.rest)))
          [] OTHER -> Lexed(Attribute(kind, attr, loop.value, loop.case_sensitive),
                            Tail(SkipQuote(loop.rest)))

\* Lexer::lex_attr, `[` consumed.
lex_attr(chars) ==
    LET n == Run(chars, Letters \cup {"-"})
        attr == Collect(SubSeq(chars, 1, n))
        rest == Drop(chars, n)
    IN  CASE devour_whitespace(rest) -> Spinning(rest)
          [] rest = <<>> -> Aborted(rest)
          [] Head(rest) = "]" -> Lexed(Attribute("any", attr, "", TRUE), Tail(rest))
          [] Head(rest) = "i" ->
                CASE devour_whitespace(Tail(rest)) -> Spinning(Tail(rest))
                  [] Tail(rest) = <<>> \/ rest[2] # "]" -> Aborted(Drop(rest, 2))
                  [] OTHER -> Lexed(Attribute("any", attr, "", FALSE), Drop(rest, 2))
          [] Head(rest) \in {"=", "~", "|", "^", "$", "*"} ->
                AttrAfterKind(Head(rest), attr, Tail(rest))
          [] OTHER -> Aborted(Tail(rest))

\* Iterator::next of Lexer on the buffer `chars`.
next(chars) ==
    CASE chars = <<>> -> Ended(chars)
      [] Head(chars) \in Letters -> lex_ident(chars)
      [] Head(chars) = "@" -> lex_at_rule(chars)
      [] Head(chars) \in Digits -> lex_num(chars)
      [] Head(chars) = "$" -> lex_variable(chars)
      [] Head(chars) \in Symbols -> Lexed(Symbol(Head(chars)), Tail(chars))
      [] Head(chars) \in {" ", "\n"} -> Lexed(Whitespace(Head(chars)), Tail(chars))
      [] Head(chars) = "/" -> lex_forward_slash(chars)
      [] Head(chars) = "[" -> lex_attr(Tail(chars))
      [] OTHER -> Aborted(chars)

Chars == Letters \cup Digits \cup Symbols
             \cup {" ", "\n", "/", "[", "]", "=", "$", "@"}

\* Comments longer than MaxInput: `/**/a`, `/*a*/a` and `//a`, newline, `a`.
LongInputs ==
    { <<"/", "*", "*", "/", "a">>,
      <<"/", "*", "a", "*", "/", "a">>,
      <<"/", "/", "a", "\n", "a">> }

LexInputs == UNION {[1..n -> Chars] : n \in 0..MaxInput} \cup LongInputs

\* Calls of next that are followed on one input.
MaxTokens == MaxInput + 2

\* Lexer::new(buf)
LexInit ==
    /\ buf \in LexInputs
    /\ tokens = <<>>
    /\ lexPc = "lexing"
    /\ SelIdle /\ AtIdle /\ UniIdle /\ DispIdle /\ FnIdle /\ ValIdle /\ CssIdle

\* next returns Some(token)
NextSome ==
    /\ lexPc = "lexing" /\ Len(tokens) < MaxTokens
    /\ next(buf).kind = "token"
    /\ tokens' = Append(tokens, next(buf).tok)
    /\ buf' = next(buf).rest
    /\ UNCHANGED lexPc
    /\ UNCHANGED outsideLex

\* next returns None
NextNone ==
    /\ lexPc = "lexing"
    /\ next(buf).kind = "none"
    /\ lexPc' = "none"
    /\ UNCHANGED <<buf, tokens>>
    /\ UNCHANGED outsideLex

\* next panics
NextPanics ==
    /\ lexPc = "lexing"
    /\ next(buf).kind = "panic"
    /\ lexPc' = "panic"
    /\ buf' = next(buf).rest
    /\ UNCHANGED tokens
    /\ UNCHANGED outsideLex

\* next never returns
NextSpins ==
    /\ lexPc = "lexing"
    /\ next(buf).kind = "hang"
    /\ lexPc' = "hang"
    /\ buf' = next(buf).rest
    /\ UNCHANGED tokens
    /\ UNCHANGED outsideLex

LexNext == NextSome \/ NextNone \/ NextPanics \/ NextSpins
SpecLex == LexInit /\ [][LexNext]_vars

\* The buffer starts with a block comment that is closed: the index of the `*`
\* of the first `*/` after the opening `/*`, 0 when there is none.
FirstClose ==
    LET closes == {j \in 3..(Len(buf) - 1) : buf[j] = "*" /\ buf[j + 1] = "/"}
    IN  IF Len(buf) >= 2 /\ buf[1] = "/" /\ buf[2] = "*" /\ closes # {}
        THEN CHOOSE j \in closes : \A other \in closes : j <= other
        ELSE 0

AtLineComment == Len(buf) >= 2 /\ buf[1] = "/" /\ buf[2] = "/"

\* The index of the first newline of the buffer, one past its end when there
\* is none.
LineEnd ==
    LET ends == {j \in 1..Len(buf) : buf[j] = "\n"}
    IN  IF ends = {} THEN Len(buf) + 1
        ELSE CHOOSE j \in ends : \A other \in ends : j <= other

\* The call goes on as it would on the buffer `rest`.
ResumesWith(rest) ==
    /\ tokens' = IF next(rest).kind = "token"
                 THEN Append(tokens, next(rest).tok) ELSE tokens
    /\ buf' = next(rest).rest

\* C25: a call of next at a closed block comment emits one newline token and
\* leaves the buffer right after the first `*/` that follows the opening `/*`;
\* a call at a line comment emits nothing for it and goes on with the text
\* from the end of that line.
C25_Comments ==
    [][lexPc = "lexing" =>
          /\ FirstClose > 0 =>
                /\ tokens' = Append(tokens, Whitespace("\n"))
                /\ buf' = Drop(buf, FirstClose + 1)
          /\ AtLineComment =>
                \/ ResumesWith(Drop(buf, LineEnd - 1))
                \/ ResumesWith(Drop(buf, LineEnd))]_vars

\* C26: every call of next returns, and a call that returns a token has
\* consumed at least one character.
C26_TokensConsume ==
    [][/\ lexPc' # "hang"
       /\ Len(tokens') > Len(tokens) => Len(buf') < Len(buf)]_vars

\* C27: the components of a SelectorList are never empty: the list a call of
\* resolve_parent_selectors returns holds at least one complex selector.
C27_NeverEmpty ==
    (selPc = "done" /\ selOut.kind = "ok") => selOut.components # <<>>

(***************************************************************************)
(* Plain-CSS mode (input_syntax = Css), with tests/plain-css.rs.           *)
(***************************************************************************)
\* A construct of a stylesheet: its category, the name of an at-rule or a
\* function, its source text, and whether a function call ends with an empty
\* argument.
Construct(c, name, text, empty) ==
    [c |-> c, name |-> name, text |-> text, empty |-> empty]
Word(text) == Construct("word", "", text, FALSE)
FunctionCall(name, text, empty) == Construct("function", name, text, empty)
AtRuleUse(name, text) == Construct("at-rule", name, text, FALSE)

\* A case of tests/plain-css.rs: the constructs of its input in source order,
\* the error it expects ("" for a test! case) and the values it expects in
\* the output.
Case(input, error, output) ==
    [input |-> input, error |-> error, output |-> output]

PlainCssTests ==
    { Case(<<FunctionCall("rotate", "rotate(-45deg)", FALSE)>>, "", <<"rotate(-45deg)">>),
      Case(<<Word("null")>>, "", <<"null">>),
      Case(<<Word("1"), Word("and"), Word("2")>>, "", <<"1", "and", "2">>),
      Case(<<Word("1"), Word("or"), Word("2")>>, "", <<"1", "or", "2">>),
      Case(<<Word("not"), Word("2")>>, "", <<"not", "2">>),
      Case(<<Word("not"), Word("true")>>, "", <<"not", "true">>),
      Case(<<Construct("silent-comment", "", "// silent", FALSE)>>,
           "Error: Silent comments aren't allowed in plain CSS.", <<>>),
      Case(<<AtRuleUse("function", "@function foo()"),
             AtRuleUse("return", "@return 2")>>,
           "Error: This at-rule isn't allowed in plain CSS.", <<>>),
      Case(<<AtRuleUse("content", "@content")>>,
           "Error: This at-rule isn't allowed in plain CSS.", <<>>),
      Case(<<AtRuleUse("media", "@media (foo)"), Word("red")>>, "",
           <<"@media (foo)", "red">>),
      Case(<<FunctionCall("var", "var(1, )", TRUE)>>, "", <<"var(1, )">>),
      Case(<<FunctionCall("foo", "foo(1, )", TRUE)>>, "Error: Expected expression.", <<>>),
      Case(<<FunctionCall("if", "if(true, a, b)", FALSE)>>,
           "Error: This function isn't allowed in plain CSS.", <<>>),
      Case(<<FunctionCall("map-get", "map-get(true, a, b)", FALSE)>>,
           "Error: This function isn't allowed in plain CSS.", <<>>),
      Case(<<Word("1"), Construct("operator", "", "+", FALSE), Word("2")>>,
           "Error: Operators aren't allowed in plain CSS.", <<>>),
      Case(<<Construct("parens", "", "(a b)", FALSE)>>,
           "Error: Parentheses aren't allowed in plain CSS.", <<>>),
      Case(<<Construct("variable", "", "$a", FALSE)>>,
           "Error: Sass variables aren't allowed in plain CSS.", <<>>),
      Case(<<Construct("parent-selector", "", "&", FALSE)>>,
           "Error: The parent selector isn't allowed in plain CSS.", <<>>),
      Case(<<Construct("unary", "", "+", FALSE),
             Construct("parens", "", "(1)", FALSE)>>,
           "Error: Operators aren't allowed in plain CSS.", <<>>),
      Case(<<Construct("unary", "", "-", FALSE),
             Construct("parens", "", "(1)", FALSE)>>,
           "Error: Operators aren't allowed in plain CSS.", <<>>),
      Case(<<FunctionCall("rgb", "rgb(true, a, b)", FALSE)>>, "", <<"rgb(true, a, b)">>) }

\* The at-rules and the functions that only the preprocessor language has.
SassAtRules ==
    {"function", "return", "mixin", "include", "content", "if", "else", "each",
     "for", "while"}
SassFunctions == {"if", "map-get"}

\* The diagnostic of a construct in plain-CSS mode, with an empty argument
\* rejected in `var` as in every other function.
PlainCssCheck_VarAsOthers(x) ==
    CASE x.c = "silent-comment" -> "Silent comments aren't allowed in plain CSS."
      [] x.c = "at-rule" /\ x.name \in SassAtRules ->
            "This at-rule isn't allowed in plain CSS."
      [] x.c = "function" /\ x.name \in SassFunctions ->
            "This function isn't allowed in plain CSS."
      [] x.c = "function" /\ x.empty -> "Expected expression."
      [] x.c \in {"operator", "unary"} -> "Operators aren't allowed in plain CSS."
      [] x.c = "parens" -> "Parentheses aren't allowed in plain CSS."
      [] x.c = "variable" -> "Sass variables aren't allowed in plain CSS."
      [] x.c = "parent-selector" ->
            "The parent selector isn't allowed in plain CSS."
      [] OTHER -> ""

\* The diagnostic of a construct in plain-CSS mode, "" when it is allowed.
PlainCssCheck(x) ==
    CASE x.c = "silent-comment" -> "Silent comments aren't allowed in plain CSS."
      [] x.c = "at-rule" /\ x.name \in SassAtRules ->
            "This at-rule isn't allowed in plain CSS."
      [] x.c = "function" /\ x.name \in SassFunctions ->
            "This function isn't allowed in plain CSS."
      [] x.c = "function" /\ x.empty /\ x.name # "var" -> "Expected expression."
      [] x.c \in {"operator", "unary"} -> "Operators aren't allowed in plain CSS."
      [] x.c = "parens" -> "Parentheses aren't allowed in plain CSS."
      [] x.c = "variable" -> "Sass variables aren't allowed in plain CSS."
      [] x.c = "parent-selector" ->
            "The parent selector isn't allowed in plain CSS."
      [] OTHER -> ""

\* The constructs the cases are made of, and the inputs built from them.
Constructs == UNION {{t.input[k] : k \in 1..Len(t.input)} : t \in PlainCssTests}
CssInputs ==
    {t.input : t \in PlainCssTests} \cup SeqsUpTo(Constructs, MaxConstructs)

CssInit ==
    /\ cssIn \in CssInputs
    /\ cssPos = 1
    /\ cssOut = <<>>
    /\ cssPc = "parsing"
    /\ SelIdle /\ AtIdle /\ UniIdle /\ DispIdle /\ FnIdle /\ ValIdle /\ LexIdle

\* The next construct is allowed: its text goes to the output as it is.
CssEmit ==
    /\ cssPc = "parsing" /\ cssPos <= Len(cssIn)
    /\ PlainCssCheck(cssIn[cssPos]) = ""
    /\ cssOut' = Append(cssOut, cssIn[cssPos].text)
    /\ cssPos' = cssPos + 1
    /\ UNCHANGED <<cssIn, cssPc>>
    /\ UNCHANGED outsideCss

\* The next construct is forbidden: compilation fails with its diagnostic.
CssReject ==
    /\ cssPc = "parsing" /\ cssPos <= Len(cssIn)
    /\ PlainCssCheck(cssIn[cssPos]) # ""
    /\ cssOut' = <<"Error: " \o PlainCssCheck(cssIn[cssPos])>>
    /\ cssPc' = "failed"
    /\ UNCHANGED <<cssIn, cssPos>>
    /\ UNCHANGED outsideCss

\* The end of the input: the stylesheet is emitted.
CssFinish ==
    /\ cssPc = "parsing" /\ cssPos > Len(cssIn)
    /\ cssPc' = "done"
    /\ UNCHANGED <<cssIn, cssPos, cssOut>>
    /\ UNCHANGED outsideCss

CssNext == CssEmit \/ CssReject \/ CssFinish
SpecCss == CssInit /\ [][CssNext]_vars

\* The constructs the claim lists as forbidden.
IsForbidden(x) ==
    \/ x.c \in {"silent-comment", "operator", "unary", "parens", "variable",
                "parent-selector"}
    \/ x.c = "at-rule" /\ x.name \in SassAtRules
    \/ x.c = "function" /\ x.name \in SassFunctions
    \/ x.c = "function" /\ x.empty /\ x.name # "var"

ListedDiagnostics ==
    {t.error : t \in PlainCssTests} \ {""}

\* C24: in plain-CSS mode every case of tests/plain-css.rs ends as the test
\* expects, with its diagnostic or with its values unevaluated; an input with
\* a forbidden construct fails with one listed diagnostic and emits nothing,
\* and an input that compiles holds no forbidden construct and has every text
\* emitted as written.
C24_PlainCss ==
    /\ \A t \in PlainCssTests :
          cssIn = t.input =>
              /\ cssPc = "failed" => t.error # "" /\ cssOut = <<t.error>>
              /\ cssPc = "done" => t.error = "" /\ cssOut = t.output
    /\ cssPc = "failed" =>
          /\ \E d \in ListedDiagnostics : cssOut = <<d>>
          /\ \E k \in 1..Len(cssIn) : IsForbidden(cssIn[k])
    /\ cssPc = "done" =>
          /\ \A k \in 1..Len(cssIn) : ~IsForbidden(cssIn[k])
          /\ cssOut = [k \in 1..Len(cssIn) |-> cssIn[k].text]

C24_Witness ==
    /\ cssPc = "failed"
    /\ cssIn = <<Construct("unary", "", "+", FALSE),
                 Construct("parens", "", "(1)", FALSE)>>
    /\ cssOut = <<"Error: Operators aren't allowed in plain CSS.">>

(***************************************************************************)
(* The whole model.                                                        *)
(***************************************************************************)
Init == SelInit \/ AtInit \/ UniInit \/ DispInit \/ FnInit \/ ValInit \/ LexInit \/ CssInit

Next == SelNext \/ AtNext \/ UniNext \/ DispNext \/ FnNext \/ ValNext \/ LexNext \/ CssNext

Spec == Init /\ [][Next]_vars

====
